---- MODULE Spec2Model ----
(***************************************************************************)
(* Natural-language query pipeline of the news dataset API                 *)
(* (src/src/services/nlQueryService.ts): translation by the model-backed   *)
(* translator or the pattern fallback, textual correction, validation,     *)
(* execution through request-scoped DataLoaders, and the result envelope.  *)
(* Texts are TLA+ strings handled character by character, as the code's    *)
(* String methods and regular expressions handle them.                     *)
(***************************************************************************)
EXTENDS Integers, Sequences, FiniteSets, TLC

VARIABLES
    pc,               \* position of the run inside processQuery
    now,              \* Date.now(), in milliseconds since the run's construction
    nlQuery,          \* naturalLanguageQuery, the caller's text
    startTime,        \* processQuery's startTime
    answer,           \* what the model service call settled with
    graphqlQuery,     \* the Structured Query convertToGraphQL returned
    validationResult, \* what validateQuery returned
    engine,           \* what graphql() settled with
    raised,           \* the error thrown inside processQuery's try block
    outcome,          \* what processQuery returned or threw
    calls,            \* history: the stages invoked in this run, in order
    status,           \* per Executor call: "unborn", "running" or "done"
    cache,            \* per Executor call and loader: the DataLoader's key -> promise
    queue,            \* per Executor call and loader: keys of the batch being collected
    promises,         \* promise id -> its settlement
    fetches,          \* history: the batches sent to the backing store
    loads             \* history: the load() calls made, each with its promise

pipelineVars == << pc, now, nlQuery, startTime, answer, graphqlQuery, validationResult,
                   engine, raised, outcome, calls >>

loaderVars == << status, cache, queue, promises, fetches, loads >>

vars == << pc, now, nlQuery, startTime, answer, graphqlQuery, validationResult,
           engine, raised, outcome, calls,
           status, cache, queue, promises, fetches, loads >>

\* JavaScript values that are not strings: undefined, null, and an object
Undefined == [kind |-> "undefined"]
Null == [kind |-> "null"]
Obj(v) == [kind |-> "object", value |-> v]

(***************************************************************************)
(* String primitives of the JavaScript runtime the code relies on.         *)
(***************************************************************************)

UpperCase == "ABCDEFGHIJKLMNOPQRSTUVWXYZ"
LowerCase == "abcdefghijklmnopqrstuvwxyz"
Digits == "0123456789"

\* whether character c occurs in the string s
CharIn(c, s) == \E i \in 1..Len(s) : SubSeq(s, i, i) = c

\* index of the first occurrence of character c in s (c occurs in s)
IndexOfChar(c, s) == CHOOSE i \in 1..Len(s) :
                        /\ SubSeq(s, i, i) = c
                        /\ \A j \in 1..(i - 1) : SubSeq(s, j, j) # c

LowerChar(c) == IF CharIn(c, UpperCase)
                THEN LET i == IndexOfChar(c, UpperCase) IN SubSeq(LowerCase, i, i)
                ELSE c

\* String.prototype.toLowerCase
RECURSIVE toLowerCase(_)
toLowerCase(s) ==
    IF Len(s) = 0 THEN ""
    ELSE IF Len(s) = 1 THEN LowerChar(s)
    ELSE LET h == Len(s) \div 2
         IN  toLowerCase(SubSeq(s, 1, h)) \o toLowerCase(SubSeq(s, h + 1, Len(s)))

\* whether p occurs in s at index i
OccursAt(s, p, i) == /\ i >= 1
                     /\ i + Len(p) - 1 <= Len(s)
                     /\ SubSeq(s, i, i + Len(p) - 1) = p

\* String.prototype.includes
includes(s, p) == \E i \in 1..(Len(s) - Len(p) + 1) : OccursAt(s, p, i)

\* the regular expression classes \s and \w
IsSpace(c) == c \in {" ", "\n", "\t", "\r"}
IsWord(c) == CharIn(c, LowerCase) \/ CharIn(c, UpperCase) \/ CharIn(c, Digits) \/ c = "_"

\* membership of character c in a character class of the code's regular
\* expressions: \s, \w, or [^{]
InClass(class, c) ==
    IF class = "\\s" THEN IsSpace(c)
    ELSE IF class = "\\w" THEN IsWord(c)
    ELSE c # "{"

\* end index of the longest run of characters of the class that starts at i
\* (i - 1 when the character at i is not in the class)
RunEnd(s, i, class) ==
    LET Stops == {j \in i..Len(s) : ~InClass(class, SubSeq(s, j, j))}
    IN  IF Stops = {} THEN Len(s)
        ELSE (CHOOSE j \in Stops : \A k \in Stops : j <= k) - 1

\* String.prototype.split(' ')
RECURSIVE split(_)
split(s) ==
    IF ~CharIn(" ", s) THEN << s >>
    ELSE LET i == IndexOfChar(" ", s)
         IN  << SubSeq(s, 1, i - 1) >> \o split(SubSeq(s, i + 1, Len(s)))

\* Array.prototype.join
RECURSIVE join(_, _)
join(list, sep) ==
    IF Len(list) = 0 THEN ""
    ELSE IF Len(list) = 1 THEN list[1]
    ELSE list[1] \o sep \o join(Tail(list), sep)

(***************************************************************************)
(* The pattern fallback: NLQueryService.parseWithPatterns.                 *)
(***************************************************************************)

\* mutant of TrendingTemplate: the trending template without its limit
TrendingTemplateNoLimit ==
    "\n"
    \o "          query GetTrendingArticles {\n"
    \o "            trendingArticles {\n"
    \o "              id\n"
    \o "              title\n"
    \o "              slug\n"
    \o "              excerpt\n"
    \o "              author\n"
    \o "              publishedAt\n"
    \o "              viewCount\n"
    \o "              category {\n"
    \o "                id\n"
    \o "                name\n"
    \o "              }\n"
    \o "            }\n"
    \o "          }\n"
    \o "        "

\* nlQueryService.ts:352-368
TrendingTemplate ==
    "\n"
    \o "          query GetTrendingArticles {\n"
    \o "            trendingArticles(limit: 10) {\n"
    \o "              id\n"
    \o "              title\n"
    \o "              slug\n"
    \o "              excerpt\n"
    \o "              author\n"
    \o "              publishedAt\n"
    \o "              viewCount\n"
    \o "              category {\n"
    \o "                id\n"
    \o "                name\n"
    \o "              }\n"
    \o "            }\n"
    \o "          }\n"
    \o "        "

\* nlQueryService.ts:376-406
StatsTemplate ==
    "\n"
    \o "          query GetArticleStats {\n"
    \o "            articleStats {\n"
    \o "              totalCount\n"
    \o "              averageWordCount\n"
    \o "              averageReadingTime\n"
    \o "              topAuthors {\n"
    \o "                author\n"
    \o "                articleCount\n"
    \o "                averageSentiment\n"
    \o "                totalViews\n"
    \o "              }\n"
    \o "              categoryBreakdown {\n"
    \o "                category {\n"
    \o "                  id\n"
    \o "                  name\n"
    \o "                  slug\n"
    \o "                  description\n"
    \o "                }\n"
    \o "                count\n"
    \o "                percentage\n"
    \o "              }\n"
    \o "              sentimentDistribution {\n"
    \o "                positive\n"
    \o "                neutral\n"
    \o "                negative\n"
    \o "                average\n"
    \o "              }\n"
    \o "            }\n"
    \o "          }\n"
    \o "        "

\* nlQueryService.ts:424-461
SearchTemplate ==
    "\n"
    \o "          query SearchArticles($searchQuery: String!) {\n"
    \o "            searchArticles(query: $searchQuery, limit: 10) {\n"
    \o "              articles {\n"
    \o "                id\n"
    \o "                title\n"
    \o "                slug\n"
    \o "                excerpt\n"
    \o "                author\n"
    \o "                publishedAt\n"
    \o "                viewCount\n"
    \o "                category {\n"
    \o "                  id\n"
    \o "                  name\n"
    \o "                }\n"
    \o "                tags {\n"
    \o "                  id\n"
    \o "                  name\n"
    \o "                }\n"
    \o "              }\n"
    \o "              totalCount\n"
    \o "              facets {\n"
    \o "                categories {\n"
    \o "                  key\n"
    \o "                  count\n"
    \o "                }\n"
    \o "                authors {\n"
    \o "                  key\n"
    \o "                  count\n"
    \o "                }\n"
    \o "                sources {\n"
    \o "                  key\n"
    \o "                  count\n"
    \o "                }\n"
    \o "              }\n"
    \o "            }\n"
    \o "          }\n"
    \o "        "

\* nlQueryService.ts:470-486
RecentTemplate ==
    "\n"
    \o "          query GetRecentArticles {\n"
    \o "            articles(sort: { field: PUBLISHED_AT, order: DESC }, limit: 10) {\n"
    \o "              id\n"
    \o "              title\n"
    \o "              slug\n"
    \o "              excerpt\n"
    \o "              author\n"
    \o "              publishedAt\n"
    \o "              viewCount\n"
    \o "              category {\n"
    \o "                id\n"
    \o "                name\n"
    \o "              }\n"
    \o "            }\n"
    \o "          }\n"
    \o "        "

\* nlQueryService.ts:494-504
CategoriesTemplate ==
    "\n"
    \o "          query GetCategories {\n"
    \o "            categories {\n"
    \o "              id\n"
    \o "              name\n"
    \o "              slug\n"
    \o "              description\n"
    \o "              articleCount\n"
    \o "            }\n"
    \o "          }\n"
    \o "        "

\* nlQueryService.ts:512-520
TagsTemplate ==
    "\n"
    \o "          query GetTags {\n"
    \o "            tags(limit: 20) {\n"
    \o "              id\n"
    \o "              name\n"
    \o "              articleCount\n"
    \o "            }\n"
    \o "          }\n"
    \o "        "

\* mutant of DefaultTemplate: no default rule, nothing is returned
DefaultTemplateMissing == ""

\* nlQueryService.ts:527-543
DefaultTemplate ==
    "\n"
    \o "        query GetDefaultArticles {\n"
    \o "          articles(limit: 10) {\n"
    \o "            id\n"
    \o "            title\n"
    \o "            slug\n"
    \o "            excerpt\n"
    \o "            author\n"
    \o "            publishedAt\n"
    \o "            viewCount\n"
    \o "            category {\n"
    \o "              id\n"
    \o "              name\n"
    \o "            }\n"
    \o "          }\n"
    \o "        }\n"
    \o "      "

\* the templates of the fallback translator
Templates == { TrendingTemplate, StatsTemplate, SearchTemplate, RecentTemplate,
               CategoriesTemplate, TagsTemplate, DefaultTemplate }

\* the alternatives of /(?:about|on|regarding)\s+(\w+)/
SearchKeywords == << "about", "on", "regarding" >>

\* the stoplist of the word search, nlQueryService.ts:420
StopWords == { "find", "search", "articles", "about", "on", "the", "a", "an" }

\* a match of /(?:about|on|regarding)\s+(\w+)/ that starts at i with the
\* alternative k: its index, the whole match and the capture; Null when the
\* pattern does not match there
MatchAt(q, i, k) ==
    IF ~OccursAt(q, k, i) THEN Null
    ELSE LET w == i + Len(k)
             e == RunEnd(q, w, "\\s")
             f == RunEnd(q, e + 1, "\\w")
         IN  IF e >= w /\ f >= e + 1
             THEN Obj([index |-> i, whole |-> SubSeq(q, i, f), capture |-> SubSeq(q, e + 1, f)])
             ELSE Null

\* query.match(/(?:about|on|regarding)\s+(\w+)/): the leftmost match, the
\* alternatives tried in order, or Null
searchTermsMatch(q) ==
    LET Hits == {i \in 1..Len(q) :
                    \E n \in 1..Len(SearchKeywords) : MatchAt(q, i, SearchKeywords[n]) # Null}
    IN  IF Hits = {} THEN Null
        ELSE LET i == CHOOSE h \in Hits : \A g \in Hits : h <= g
                 n == CHOOSE m \in 1..Len(SearchKeywords) :
                        /\ MatchAt(q, i, SearchKeywords[m]) # Null
                        /\ \A l \in 1..(m - 1) : MatchAt(q, i, SearchKeywords[l]) = Null
             IN  MatchAt(q, i, SearchKeywords[n])

\* query.split(' ').find(word => !stoplist.includes(word)) || 'news'
firstContentWord(q) ==
    LET words == split(q)
        Keep == {i \in 1..Len(words) : words[i] \notin StopWords}
    IN  IF Keep = {} THEN "news"
        ELSE LET w == words[CHOOSE i \in Keep : \A j \in Keep : i <= j]
             IN  IF w = "" THEN "news" ELSE w

\* mutant of lowered: the rules are matched against the text as typed
loweredNot(text) == text

\* nlQueryService.ts:347, the text the rules are matched against
lowered(text) == toLowerCase(text)

\* mutant of parseWithPatterns: the search rule is tried before the trending
\* and the statistics rules
parseWithPatternsSearchFirst(text) ==
    LET query == lowered(text)
        searchTerms == searchTermsMatch(query)
    IN  IF searchTerms # Null \/ includes(query, "find") \/ includes(query, "search")
        THEN LET searchTerm == IF searchTerms # Null THEN searchTerms.value.capture
                               ELSE firstContentWord(query)
             IN  [query |-> SearchTemplate,
                  variables |-> Obj([searchQuery |-> searchTerm]),
                  explanation |-> "Searching for articles containing \"" \o searchTerm \o "\""]
        ELSE IF includes(query, "trending") \/ includes(query, "popular")
        THEN [query |-> TrendingTemplate, variables |-> Undefined,
              explanation |-> "Fetching trending articles based on view count"]
        ELSE IF \/ includes(query, "stats") \/ includes(query, "statistics")
                \/ includes(query, "analytics")
        THEN [query |-> StatsTemplate, variables |-> Undefined,
              explanation |-> "Getting comprehensive statistics about articles"]
        ELSE IF includes(query, "recent") \/ includes(query, "latest") \/ includes(query, "new")
        THEN [query |-> RecentTemplate, variables |-> Undefined,
              explanation |-> "Fetching the most recently published articles"]
        ELSE IF includes(query, "categories") \/ includes(query, "category")
        THEN [query |-> CategoriesTemplate, variables |-> Undefined,
              explanation |-> "Listing all available article categories"]
        ELSE IF includes(query, "tags") \/ includes(query, "tag")
        THEN [query |-> TagsTemplate, variables |-> Undefined,
              explanation |-> "Listing popular article tags"]
        ELSE [query |-> DefaultTemplate, variables |-> Undefined,
              explanation |-> "Fetching a general list of articles (default query)"]

\* nlQueryService.ts:342-546
parseWithPatterns(text) ==
    LET query == lowered(text)
        searchTerms == searchTermsMatch(query)
    IN  IF includes(query, "trending") \/ includes(query, "popular")
        THEN [query |-> TrendingTemplate, variables |-> Undefined,
              explanation |-> "Fetching trending articles based on view count"]
        ELSE IF \/ includes(query, "stats") \/ includes(query, "statistics")
                \/ includes(query, "analytics")
        THEN [query |-> StatsTemplate, variables |-> Undefined,
              explanation |-> "Getting comprehensive statistics about articles"]
        ELSE IF searchTerms # Null \/ includes(query, "find") \/ includes(query, "search")
        THEN LET searchTerm == IF searchTerms # Null THEN searchTerms.value.capture
                               ELSE firstContentWord(query)
             IN  [query |-> SearchTemplate,
                  variables |-> Obj([searchQuery |-> searchTerm]),
                  explanation |-> "Searching for articles containing \"" \o searchTerm \o "\""]
        ELSE IF includes(query, "recent") \/ includes(query, "latest") \/ includes(query, "new")
        THEN [query |-> RecentTemplate, variables |-> Undefined,
              explanation |-> "Fetching the most recently published articles"]
        ELSE IF includes(query, "categories") \/ includes(query, "category")
        THEN [query |-> CategoriesTemplate, variables |-> Undefined,
              explanation |-> "Listing all available article categories"]
        ELSE IF includes(query, "tags") \/ includes(query, "tag")
        THEN [query |-> TagsTemplate, variables |-> Undefined,
              explanation |-> "Listing popular article tags"]
        ELSE [query |-> DefaultTemplate, variables |-> Undefined,
              explanation |-> "Fetching a general list of articles (default query)"]

(***************************************************************************)
(* The Validator: NLQueryService.validateQuery.                            *)
(***************************************************************************)

allowedQueries == << "article", "articles", "searchArticles", "articleStats",
                     "trendingArticles", "recommendedArticles", "categories",
                     "category", "tags" >>

\* errors.push(msg) when cond holds
PushIf(cond, msg) == IF cond THEN << msg >> ELSE << >>

\* mutant of validateQuery: the Validator returns at its first violation
validateQueryFirstOnly(query) ==
    LET queryLower == toLowerCase(query)
        usedQueries == {n \in 1..Len(allowedQueries) :
                           includes(queryLower, toLowerCase(allowedQueries[n]))}
        errors ==
            IF usedQueries = {}
            THEN << "Query does not use any valid root query field" >>
            ELSE IF includes(queryLower, "searcharticles") /\ ~includes(queryLower, "query:")
            THEN << "searchArticles requires a query parameter" >>
            ELSE IF includes(queryLower, "recommendedarticles")
                       /\ ~includes(queryLower, "articleid:")
            THEN << "recommendedArticles requires an articleId parameter" >>
            ELSE IF includes(queryLower, "author {") \/ includes(queryLower, "author{")
            THEN << "author is a String field, not an object - select it directly" >>
            ELSE IF includes(queryLower, "publishedat {") \/ includes(queryLower, "publishedat{")
            THEN << "publishedAt is a String field, not an object - select it directly" >>
            ELSE IF includes(queryLower, "category:") /\ ~includes(queryLower, "categoryid:")
            THEN << "Use categoryId instead of category in filters" >>
            ELSE << >>
    IN  [isValid |-> Len(errors) = 0, errors |-> errors]

validateQuery(query) ==
    LET queryLower == toLowerCase(query)
        usedQueries == {n \in 1..Len(allowedQueries) :
                           includes(queryLower, toLowerCase(allowedQueries[n]))}
        errors ==
            PushIf(usedQueries = {}, "Query does not use any valid root query field")
            \o PushIf(includes(queryLower, "searcharticles") /\ ~includes(queryLower, "query:"),
                      "searchArticles requires a query parameter")
            \o PushIf(includes(queryLower, "recommendedarticles")
                         /\ ~includes(queryLower, "articleid:"),
                      "recommendedArticles requires an articleId parameter")
            \o PushIf(includes(queryLower, "author {") \/ includes(queryLower, "author{"),
                      "author is a String field, not an object - select it directly")
            \o PushIf(includes(queryLower, "publishedat {") \/ includes(queryLower, "publishedat{"),
                      "publishedAt is a String field, not an object - select it directly")
            \o PushIf(includes(queryLower, "category:") /\ ~includes(queryLower, "categoryid:"),
                      "Use categoryId instead of category in filters")
    IN  [isValid |-> Len(errors) = 0, errors |-> errors]

(***************************************************************************)
(* The model-backed translator and its Corrector:                          *)
(* NLQueryService.convertWithOpenAI.                                       *)
(***************************************************************************)

\* index of the first occurrence of p in s at or after i, 0 when there is none
indexOf(s, p, i) ==
    LET Hits == {j \in i..(Len(s) - Len(p) + 1) : OccursAt(s, p, j)}
    IN  IF Hits = {} THEN 0 ELSE CHOOSE j \in Hits : \A k \in Hits : j <= k

\* String.prototype.replace with a string pattern: the first occurrence only
replaceFirst(s, p, r) ==
    LET i == indexOf(s, p, 1)
    IN  IF i = 0 THEN s
        ELSE SubSeq(s, 1, i - 1) \o r \o SubSeq(s, i + Len(p), Len(s))

\* a match of  head gap* \{ \s* ([^}]+) \s* \}  starting at i, where gap is
\* the class \s for the categories rule and [^{] for the tags rule: the index
\* of the closing brace and the capture, or Null
BlockMatchAt(q, i, head, gap) ==
    IF ~OccursAt(q, head, i) THEN Null
    ELSE LET b == RunEnd(q, i + Len(head), gap) + 1
         IN  IF ~OccursAt(q, "{", b) THEN Null
             ELSE LET s == RunEnd(q, b + 1, "\\s")
                      c == indexOf(q, "}", b + 1)
                  IN  IF c = 0 \/ c = b + 1 THEN Null
                      ELSE IF s < c - 1
                      THEN Obj([end |-> c, capture |-> SubSeq(q, s + 1, c - 1)])
                      ELSE Obj([end |-> c, capture |-> SubSeq(q, c - 1, c - 1)])

\* String.prototype.replace with the global block pattern, scanning from i:
\* every match becomes  head { $1 articleCount }
RECURSIVE replaceBlocks(_, _, _, _)
replaceBlocks(q, i, head, gap) ==
    LET Hits == {j \in i..Len(q) : BlockMatchAt(q, j, head, gap) # Null}
    IN  IF Hits = {} THEN SubSeq(q, i, Len(q))
        ELSE LET j == CHOOSE h \in Hits : \A g \in Hits : h <= g
                 m == BlockMatchAt(q, j, head, gap).value
             IN  SubSeq(q, i, j - 1)
                 \o head \o " { " \o m.capture \o " articleCount }"
                 \o replaceBlocks(q, m.end + 1, head, gap)

\* nlQueryService.ts:314-316
correctTrending(q) ==
    IF includes(q, "trendingArticles") /\ ~includes(q, "trendingArticles(")
    THEN replaceFirst(q, "trendingArticles", "trendingArticles(limit: 10)")
    ELSE q

\* mutant of correctCategories: the rule does not look for articleCount
correctCategoriesUnguarded(q) ==
    IF includes(q, "categories")
    THEN replaceBlocks(q, 1, "categories", "\\s")
    ELSE q

\* nlQueryService.ts:319-324
correctCategories(q) ==
    IF includes(q, "categories") /\ ~includes(q, "articleCount")
    THEN replaceBlocks(q, 1, "categories", "\\s")
    ELSE q

\* nlQueryService.ts:327-332
correctTags(q) ==
    IF includes(q, "tags") /\ ~includes(q, "articleCount")
    THEN replaceBlocks(q, 1, "tags", "[^{]")
    ELSE q

\* the three rewrites in the order the code applies them
correctedQuery(q) == correctTags(correctCategories(correctTrending(q)))

\* JSON values as JSON.parse produces them
JString(s) == [t |-> "string", s |-> s]
JNumber == [t |-> "number"]
JNull == [t |-> "null"]
JArray == [t |-> "array"]
JObject(fields) == [t |-> "object", fields |-> fields]

\* the message content of the model's answer: absent, or a text that is or is
\* not well-formed JSON
NoContent == [kind |-> "null"]
Malformed == [kind |-> "text", wellFormed |-> FALSE]
JsonText(v) == [kind |-> "text", wellFormed |-> TRUE, value |-> v]

\* a thrown value: an Error with its message
Error(m) == [kind |-> "error", message |-> m]
Ok(v) == [kind |-> "ok", value |-> v]

\* JSON.parse(response.choices[0].message.content || '{}')
JSONparse(content) ==
    IF content.kind = "null" THEN Ok(JObject(<< >>))
    ELSE IF ~content.wellFormed THEN Error("Unexpected token in JSON")
    ELSE Ok(content.value)

HasString(fields, name) == name \in DOMAIN fields /\ fields[name].t = "string"

\* mutant of GraphQLQuerySchema: variables is optional() without nullable()
GraphQLQuerySchemaNotNullable(v) ==
    IF v.t # "object" THEN Error("Expected object")
    ELSE IF ~HasString(v.fields, "query") THEN Error("query: Required string")
    ELSE IF "variables" \in DOMAIN v.fields /\ v.fields["variables"].t # "object"
    THEN Error("variables: Expected object")
    ELSE IF ~HasString(v.fields, "explanation") THEN Error("explanation: Required string")
    ELSE Ok([query |-> v.fields["query"].s,
             variables |-> IF "variables" \notin DOMAIN v.fields THEN Undefined
                           ELSE Obj(v.fields["variables"].fields),
             explanation |-> v.fields["explanation"].s])

\* GraphQLQuerySchema.parse: z.object strips the keys it does not declare
GraphQLQuerySchema(v) ==
    IF v.t # "object" THEN Error("Expected object")
    ELSE IF ~HasString(v.fields, "query") THEN Error("query: Required string")
    ELSE IF "variables" \in DOMAIN v.fields
            /\ v.fields["variables"].t \notin {"null", "object"}
    THEN Error("variables: Expected object")
    ELSE IF ~HasString(v.fields, "explanation") THEN Error("explanation: Required string")
    ELSE Ok([query |-> v.fields["query"].s,
             variables |-> IF "variables" \notin DOMAIN v.fields THEN Undefined
                           ELSE IF v.fields["variables"].t = "null" THEN Null
                           ELSE Obj(v.fields["variables"].fields),
             explanation |-> v.fields["explanation"].s])

\* mutant of orUndefined: parsed.variables is returned as it is
orUndefinedKeepsNull(v) == v

\* parsed.variables || undefined
orUndefined(v) == IF v = Null THEN Undefined ELSE v

\* convertWithOpenAI once the service call has settled with `a`
convertWithOpenAI(a) ==
    IF a.kind = "rejects" THEN Error(a.message)
    ELSE LET result == JSONparse(a.content)
         IN  IF result.kind = "error" THEN result
             ELSE LET parsed == GraphQLQuerySchema(result.value)
                  IN  IF parsed.kind = "error" THEN parsed
                      ELSE Ok([query |-> correctedQuery(parsed.value.query),
                               variables |-> orUndefined(parsed.value.variables),
                               explanation |-> parsed.value.explanation])

\* mutant of convertToGraphQL: no catch around the model-backed translator
convertToGraphQLNoCatch(text, a) == convertWithOpenAI(a)

\* convertToGraphQL: the model-backed translation, else the pattern fallback
convertToGraphQL(text, a) ==
    LET r == convertWithOpenAI(a)
    IN  IF r.kind = "ok" THEN Ok(r.value) ELSE Ok(parseWithPatterns(text))

(***************************************************************************)
(* Inputs of the runs: caller texts, model answers, engine results.        *)
(***************************************************************************)

\* longest caller text, in fragments, given to the fallback translator alone
MaxFrags == 3
\* longest caller text, in fragments, given to a whole pipeline run
MaxRunFrags == 1
\* most errors the execution engine reports for one query
MaxErrors == 2

\* pieces of caller text: rule keywords in several letter cases, stoplist
\* words, an "on" inside a word, doubled and trailing spaces
Fragments == { "Show me ", "Trending", "POPULAR ", "Find articles ", "about Climate",
               "lemon  AI", "the ", "stats", "new tags", "on " }

RECURSIVE TextsUpTo(_)
TextsUpTo(n) ==
    IF n = 0 THEN { "" }
    ELSE LET P == TextsUpTo(n - 1) IN P \cup { t \o f : t \in P, f \in Fragments }

\* query texts a model answer may carry: ones each Corrector rule rewrites,
\* ones the Validator rejects with one and with two violations, a plain one,
\* a named operation that selects author as a scalar, a filter that uses
\* both the category key and the categoryId key, and an unknown root field
\* whose selection holds a recognized name, and a search without its query
\* argument under a declaration of a variable named query, and a trending
\* query with a space before its argument list
ModelQueries ==
    { "query { articles(limit: 5) { id title } }",
      "{ users { id category { name } } }",
      "query Q($query: String) { searchArticles(limit: 5) { totalCount } }",
      "query ArticlesByAuthor { articles { id author } }",
      "{ articles(filter: { category: \"tech\", categoryId: \"c1\" }) { id } }",
      "{ trendingArticles { id title } }",
      "{ trendingArticles (limit: 5) { id } }",
      "{ categories { id name } }",
      "{ tags(limit: 5) { id name } }",
      "{ articles { id author { name } } }",
      "{ articles(filter: { category: \"tech\" }) { id publishedAt { year } } }",
      "{ searchArticles { totalCount } }",
      "{ users { id } }" }

ModelExplanation == "Model explanation"

WellShaped(q, extra) ==
    JObject([f \in {"query", "explanation"} \cup extra |->
                IF f = "query" THEN JString(q)
                ELSE IF f = "explanation" THEN JString(ModelExplanation)
                ELSE IF f = "variables" THEN JObject([limit |-> JNumber])
                ELSE JString("extra")])

\* the model service call rejects
ServiceDown == [kind |-> "rejects", message |-> "Connection error."]

\* what the model service call can settle with
ModelAnswers ==
    { ServiceDown,
      [kind |-> "content", content |-> NoContent],
      [kind |-> "content", content |-> Malformed],
      [kind |-> "content", content |-> JsonText(JArray)],
      [kind |-> "content", content |-> JsonText(JObject([explanation |-> JString("no query")]))],
      [kind |-> "content", content |-> JsonText(JObject([query |-> JNumber,
                                                          explanation |-> JString("e")]))],
      [kind |-> "content", content |-> JsonText(JObject([query |-> JString("{ tags { id } }")]))],
      [kind |-> "content", content |-> JsonText(JObject([query |-> JString("{ tags { id } }"),
                                                          variables |-> JString("v"),
                                                          explanation |-> JString("e")]))] }
    \cup { [kind |-> "content", content |-> JsonText(WellShaped(q, {}))] : q \in ModelQueries }
    \cup { [kind |-> "content", content |-> JsonText(WellShaped(q, x))] :
             q \in { "query { articles(limit: 5) { id title } }" },
             x \in { {"variables"}, {"confidence"} } }
    \cup { [kind |-> "content",
            content |-> JsonText(JObject([query |-> JString("{ tags { id articleCount } }"),
                                          variables |-> JNull,
                                          explanation |-> JString(ModelExplanation)]))] }

\* messages of the errors the engine reports, and the data it returns
ErrorMessages == { "Cannot query field \"users\" on type \"Query\".",
                   "Variable \"$searchQuery\" of required type \"String!\" was not provided." }
EngineData == Obj([articles |-> "rows"])

RECURSIVE SeqsUpTo(_, _)
SeqsUpTo(S, n) ==
    IF n = 0 THEN { << >> }
    ELSE LET P == SeqsUpTo(S, n - 1) IN P \cup { Append(p, x) : p \in P, x \in S }

\* what graphql() can settle with: data alone, errors with or without partial
\* data, or a rejection
EngineResults ==
    { [kind |-> "result", data |-> EngineData, errors |-> << >>],
      [kind |-> "throws", message |-> "Schema must contain uniquely named types"] }
    \cup { [kind |-> "result", data |-> d, errors |-> es] :
             d \in { Null, EngineData },
             es \in SeqsUpTo({ [message |-> m] : m \in ErrorMessages }, MaxErrors) \ { << >> } }

\* milliseconds that may pass while the run awaits a collaborator
Delays == { 0, 7 }

(***************************************************************************)
(* The Orchestrator: NLQueryService.processQuery and the Executor's        *)
(* handling of the engine's result.                                        *)
(***************************************************************************)

\* mutant of mustReject: the Orchestrator ignores the Validation Result
mustRejectNever(v) == FALSE

\* nlQueryService.ts:43, the Orchestrator's test of the Validation Result
mustReject(v) == ~v.isValid

\* mutant of validationError: only the first violation is reported
validationErrorFirst(v) ==
    Error("Generated query validation failed: " \o v.errors[1])

\* nlQueryService.ts:44
validationError(v) ==
    Error("Generated query validation failed: " \o join(v.errors, ", "))

\* mutant of executeResult: partial data is returned despite engine errors
executeResultPartial(res) ==
    IF res.kind = "throws" THEN Error(res.message)
    ELSE IF Len(res.errors) > 0 /\ res.data = Null
    THEN Error("GraphQL execution error: " \o res.errors[1].message)
    ELSE Ok(res.data)

\* mutant of executeResult: every engine error message is surfaced
executeResultAllMessages(res) ==
    IF res.kind = "throws" THEN Error(res.message)
    ELSE IF Len(res.errors) > 0
    THEN Error("GraphQL execution error: "
               \o join([i \in 1..Len(res.errors) |-> res.errors[i].message], "; "))
    ELSE Ok(res.data)

\* nlQueryService.ts:585-589, executeGraphQLQuery once graphql() has settled
executeResult(res) ==
    IF res.kind = "throws" THEN Error(res.message)
    ELSE IF Len(res.errors) > 0
    THEN Error("GraphQL execution error: " \o res.errors[1].message)
    ELSE Ok(res.data)

\* mutant of processQueryCatch: the error is rethrown as it is
processQueryCatchBare(error) == error

\* nlQueryService.ts:58-60, the catch of processQuery
processQueryCatch(error) ==
    Error("Failed to process natural language query: " \o error.message)

\* mutant of envelope: the query field reports the generated query text
envelopeQueryGenerated(text, gq, results, elapsed) ==
    [query |-> gq.query, interpretation |-> gq.explanation, graphqlQuery |-> gq.query,
     results |-> results, executionTime |-> elapsed]

\* nlQueryService.ts:51-57, the Result Envelope
envelope(text, gq, results, elapsed) ==
    [query |-> text, interpretation |-> gq.explanation, graphqlQuery |-> gq.query,
     results |-> results, executionTime |-> elapsed]

Pending == [kind |-> "pending"]
Returned(v) == [kind |-> "returned", value |-> v]
Thrown(e) == [kind |-> "thrown", error |-> e]

\* the texts a pipeline run is started with
RunTexts == TextsUpTo(MaxRunFrags)

\* the state of the Executor's loaders before any Executor call
LoadersIdle ==
    /\ status = << >> /\ cache = << >> /\ queue = << >>
    /\ promises = << >> /\ fetches = {} /\ loads = {}

\* the state of a pipeline run before processQuery is called
PipelineIdle ==
    /\ pc = "idle" /\ now = 0 /\ nlQuery = "" /\ startTime = 0
    /\ answer = Null /\ graphqlQuery = Null /\ validationResult = Null
    /\ engine = Null /\ raised = Null /\ outcome = Pending /\ calls = << >>

Init == PipelineIdle /\ LoadersIdle

\* processQuery(text) up to its first await: the model service call is sent
ProcessQuery(text) ==
    /\ pc = "idle"
    /\ pc' = "awaitOpenAI"
    /\ nlQuery' = text
    /\ startTime' = now
    /\ calls' = << [stage |-> "convertWithOpenAI", text |-> text] >>
    /\ UNCHANGED << now, answer, graphqlQuery, validationResult, engine, raised, outcome >>
    /\ UNCHANGED loaderVars

\* mutant of OpenAISettles: a failed model-backed translation is retried once
\* before the fallback is used
OpenAISettlesRetry(a, d) ==
    /\ pc = "awaitOpenAI"
    /\ now' = now + d
    /\ answer' = a
    /\ IF convertWithOpenAI(a).kind = "error" /\ Len(calls) < 2
       THEN /\ pc' = "awaitOpenAI"
            /\ calls' = Append(calls, [stage |-> "convertWithOpenAI", text |-> nlQuery])
            /\ UNCHANGED graphqlQuery
       ELSE /\ pc' = "translated"
            /\ graphqlQuery' = convertToGraphQL(nlQuery, a)
            /\ calls' = IF convertWithOpenAI(a).kind = "error"
                        THEN Append(calls, [stage |-> "parseWithPatterns", text |-> nlQuery])
                        ELSE calls
    /\ UNCHANGED << nlQuery, startTime, validationResult, engine, raised, outcome >>
    /\ UNCHANGED loaderVars

\* the model service call settles with a after d ms: convertWithOpenAI finishes
\* or throws, and convertToGraphQL returns its result or the fallback's
OpenAISettles(a, d) ==
    /\ pc = "awaitOpenAI"
    /\ pc' = "translated"
    /\ now' = now + d
    /\ answer' = a
    /\ graphqlQuery' = convertToGraphQL(nlQuery, a)
    /\ calls' = IF convertWithOpenAI(a).kind = "error"
                THEN Append(calls, [stage |-> "parseWithPatterns", text |-> nlQuery])
                ELSE calls
    /\ UNCHANGED << nlQuery, startTime, validationResult, engine, raised, outcome >>
    /\ UNCHANGED loaderVars

\* processQuery resumes with the Structured Query: it validates it, and either
\* throws into its own catch or calls the Executor, which awaits graphql()
ValidateAndExecute ==
    /\ pc = "translated"
    /\ IF graphqlQuery.kind = "error"
       THEN /\ raised' = graphqlQuery
            /\ outcome' = Thrown(processQueryCatch(graphqlQuery))
            /\ pc' = "thrown"
            /\ UNCHANGED << validationResult, calls >>
       ELSE LET gq == graphqlQuery.value
                v == validateQuery(gq.query)
                validated == Append(calls, [stage |-> "validateQuery", query |-> gq.query,
                                            isValid |-> v.isValid])
            IN  /\ validationResult' = v
                /\ IF mustReject(v)
                   THEN /\ raised' = validationError(v)
                        /\ outcome' = Thrown(processQueryCatch(validationError(v)))
                        /\ pc' = "thrown"
                        /\ calls' = validated
                   ELSE /\ pc' = "awaitGraphql"
                        /\ calls' = Append(validated,
                                           [stage |-> "executeGraphQLQuery",
                                            query |-> gq.query, variables |-> gq.variables])
                        /\ UNCHANGED << raised, outcome >>
    /\ UNCHANGED << now, nlQuery, startTime, answer, graphqlQuery, engine >>
    /\ UNCHANGED loaderVars

\* graphql() settles with res after d ms: executeGraphQLQuery returns the data
\* or throws, and processQuery returns the envelope or rethrows from its catch
GraphqlSettles(res, d) ==
    /\ pc = "awaitGraphql"
    /\ now' = now + d
    /\ engine' = res
    /\ LET r == executeResult(res)
       IN  IF r.kind = "error"
           THEN /\ raised' = r
                /\ outcome' = Thrown(processQueryCatch(r))
                /\ pc' = "thrown"
           ELSE /\ raised' = raised
                /\ outcome' = Returned(envelope(nlQuery, graphqlQuery.value, r.value,
                                                now' - startTime))
                /\ pc' = "returned"
    /\ UNCHANGED << nlQuery, startTime, answer, graphqlQuery, validationResult, calls >>
    /\ UNCHANGED loaderVars

Next ==
    \/ \E text \in RunTexts : ProcessQuery(text)
    \/ \E a \in ModelAnswers, d \in Delays : OpenAISettles(a, d)
    \/ ValidateAndExecute
    \/ \E res \in EngineResults, d \in Delays : GraphqlSettles(res, d)

Spec == Init /\ [][Next]_vars

(***************************************************************************)
(* The tool entry point: MCPServer.getTools and MCPServer.handleToolCall.  *)
(***************************************************************************)

\* the names of the tools getTools() returns, in its order
getTools == << "query_news_articles", "get_article_stats" >>

\* this.getTools().find((t) => t.name === toolName)
findTool(toolName) ==
    IF \E i \in 1..Len(getTools) : getTools[i] = toolName
    THEN Obj(toolName) ELSE Undefined

\* mutant of toolQuery: the handler normalises the text before passing it on
toolQueryLowered(params) == toLowerCase(params.query)

\* the handler of query_news_articles: the text it passes to processQuery
toolQuery(params) == params.query

\* nlQueryService.ts:649-679, the query of the get_article_stats handler
GetStatsQuery ==
    "\n"
    \o "            query GetStats($filter: ArticleFilter) {\n"
    \o "              articleStats(filter: $filter) {\n"
    \o "                totalCount\n"
    \o "                averageWordCount\n"
    \o "                averageReadingTime\n"
    \o "                topAuthors {\n"
    \o "                  author\n"
    \o "                  articleCount\n"
    \o "                  averageSentiment\n"
    \o "                  totalViews\n"
    \o "                }\n"
    \o "                categoryBreakdown {\n"
    \o "                  category {\n"
    \o "                    id\n"
    \o "                    name\n"
    \o "                    slug\n"
    \o "                    description\n"
    \o "                  }\n"
    \o "                  count\n"
    \o "                  percentage\n"
    \o "                }\n"
    \o "                sentimentDistribution {\n"
    \o "                  positive\n"
    \o "                  neutral\n"
    \o "                  negative\n"
    \o "                  average\n"
    \o "                }\n"
    \o "              }\n"
    \o "            }\n"
    \o "          "

\* the filter the get_article_stats handler builds from params.filter
statsFilter(f) ==
    [k \in { "categoryId" : x \in {"category"} \cap DOMAIN f }
           \cup { "author" : x \in {"author"} \cap DOMAIN f }
           \cup { y : y \in IF "dateRange" \in DOMAIN f
                             THEN {"publishedAfter", "publishedBefore"} ELSE {} } |->
        IF k = "categoryId" THEN f["category"]
        ELSE IF k = "author" THEN f["author"]
        ELSE IF k = "publishedAfter" THEN f["dateRange"].start
        ELSE f["dateRange"].end]

\* params?.filter ? { filter: {...} } : {}
statsVariables(params) ==
    IF "filter" \in DOMAIN params
    THEN Obj([filter |-> statsFilter(params["filter"])])
    ELSE Obj(<< >>)

\* tool names a caller may ask for: the registered ones and unknown ones
ToolNames == { "query_news_articles", "get_article_stats", "get_article", "" }

\* the parameter objects a caller passes with a tool name
ParamsFor(toolName) ==
    IF toolName = "get_article_stats"
    THEN { << >>, [filter |-> [category |-> "c1"]],
           [filter |-> [author |-> "Jane Doe",
                        dateRange |-> [start |-> "2025-01-01", end |-> "2025-12-31"]]] }
    ELSE { [query |-> t] : t \in RunTexts }

\* handleToolCall(toolName, params) up to its first await: an unknown name
\* throws, query_news_articles enters processQuery, get_article_stats calls
\* the Executor with its own query
HandleToolCall(toolName, params) ==
    /\ pc = "idle"
    /\ LET tool == findTool(toolName)
           entry == [stage |-> "handleToolCall", toolName |-> toolName, params |-> params]
       IN  IF tool = Undefined
           THEN /\ pc' = "thrown"
                /\ outcome' = Thrown(Error("Tool " \o toolName \o " not found"))
                /\ calls' = << entry >>
                /\ UNCHANGED << nlQuery, startTime >>
           ELSE IF tool.value = "query_news_articles"
           THEN /\ pc' = "awaitOpenAI"
                /\ nlQuery' = toolQuery(params)
                /\ startTime' = now
                /\ calls' = << entry, [stage |-> "convertWithOpenAI", text |-> toolQuery(params)] >>
                /\ UNCHANGED outcome
           ELSE /\ pc' = "awaitToolGraphql"
                /\ calls' = << entry, [stage |-> "executeGraphQLQuery", query |-> GetStatsQuery,
                                       variables |-> statsVariables(params)] >>
                /\ UNCHANGED << nlQuery, startTime, outcome >>
    /\ UNCHANGED << now, answer, graphqlQuery, validationResult, engine, raised >>
    /\ UNCHANGED loaderVars

\* graphql() settles for the get_article_stats handler: handleToolCall returns
\* the data or rethrows the Executor's error as it is
ToolGraphqlSettles(res, d) ==
    /\ pc = "awaitToolGraphql"
    /\ now' = now + d
    /\ engine' = res
    /\ LET r == executeResult(res)
       IN  IF r.kind = "error"
           THEN outcome' = Thrown(r) /\ pc' = "thrown"
           ELSE outcome' = Returned(r.value) /\ pc' = "returned"
    /\ UNCHANGED << nlQuery, startTime, answer, graphqlQuery, validationResult, raised, calls >>
    /\ UNCHANGED loaderVars

\* the runs that enter through handleToolCall (Spec holds those that enter
\* through processQuery)
NextTool ==
    \/ \E toolName \in ToolNames : \E params \in ParamsFor(toolName) :
          HandleToolCall(toolName, params)
    \/ \E a \in ModelAnswers, d \in Delays : OpenAISettles(a, d)
    \/ ValidateAndExecute
    \/ \E res \in EngineResults, d \in Delays : GraphqlSettles(res, d)
    \/ \E res \in EngineResults, d \in Delays : ToolGraphqlSettles(res, d)

SpecTool == Init /\ [][NextTool]_vars

(***************************************************************************)
(* The fallback translator and the Validator applied to caller texts, as   *)
(* testNLQueries applies them when the model service is unavailable.       *)
(***************************************************************************)

\* part_002:155-162, the texts testNLQueries translates
testQueries ==
    { "Show me trending articles", "Find articles about technology", "Get recent news",
      "Show me statistics", "List all categories", "What are the popular tags?" }

\* further caller texts: ones that only the categories rule, only the tags rule
\* or several later rules match
RuleTexts ==
    { "most popular articles", "Articles by Category", "Tag cloud",
      "LATEST category tags", "categories and tags", "Search the latest analytics" }

\* caller texts with a doubled and with a leading space before the first
\* word that is not in the stoplist
SpacedTexts == { "Find  climate news", " search reports" }

InitFallback ==
    /\ pc = "text" /\ now = 0 /\ startTime = 0
    /\ nlQuery \in TextsUpTo(MaxFrags) \cup testQueries \cup RuleTexts \cup SpacedTexts
    /\ answer = Null /\ graphqlQuery = Null /\ validationResult = Null
    /\ engine = Null /\ raised = Null /\ outcome = Pending /\ calls = << >>
    /\ LoadersIdle

\* convertToGraphQL(text) while the model service call rejects
FallbackTranslates ==
    /\ pc = "text"
    /\ pc' = "parsed"
    /\ answer' = ServiceDown
    /\ graphqlQuery' = convertToGraphQL(nlQuery, ServiceDown)
    /\ calls' = Append(calls, [stage |-> "parseWithPatterns", text |-> nlQuery])
    /\ UNCHANGED << now, nlQuery, startTime, validationResult, engine, raised, outcome >>
    /\ UNCHANGED loaderVars

\* validateQuery(result.query), as testNLQueries calls it
FallbackValidated ==
    /\ pc = "parsed"
    /\ pc' = "validated"
    /\ validationResult' = validateQuery(graphqlQuery.value.query)
    /\ calls' = Append(calls, [stage |-> "validateQuery", query |-> graphqlQuery.value.query,
                               isValid |-> validationResult'.isValid])
    /\ UNCHANGED << now, nlQuery, startTime, answer, graphqlQuery, engine, raised, outcome >>
    /\ UNCHANGED loaderVars

NextFallback == FallbackTranslates \/ FallbackValidated

SpecFallback == InitFallback /\ [][NextFallback]_vars

(***************************************************************************)
(* The Executor's request-scoped DataLoaders: executeGraphQLQuery builds a *)
(* categoryLoader and a tagsLoader, and the Article resolvers load through *)
(* them while graphql() assembles the result.                              *)
(***************************************************************************)

\* Executor calls in one behaviour
MaxExecs == 2
\* load() calls in one behaviour
MaxLoads == 2

ExecCalls == 1..MaxExecs
LoaderNames == { "categoryLoader", "tagsLoader" }
\* relational ids the resolvers ask for: category ids, article ids
Keys == { "id1", "id2" }

EmptyMap == << >>
\* the map f with key k set to v, and with key k removed
Put(f, k, v) == [x \in DOMAIN f \cup {k} |-> IF x = k THEN v ELSE f[x]]
Remove(f, K) == [x \in DOMAIN f \ K |-> f[x]]

PendingPromise == [state |-> "pending"]
Fulfilled(v) == [state |-> "fulfilled", value |-> v]
Rejected(e) == [state |-> "rejected", error |-> e]

\* mutant of loadersOf: the loaders are built once, by the first call, and
\* every later call reuses them
loadersOfShared(c) == 1

\* nlQueryService.ts:572-583: the loaders the resolvers of Executor call c load
\* through are those of the defaultContext that call built (the pipeline
\* passes no contextValue); a pair of loaders is named by the call that built it
loadersOf(c) == c

\* mutant of cacheHit: the loaders are built with the cache disabled
cacheHitNever(c, l, k) == FALSE

\* DataLoader's default options: load(k) is served from the loader's cache
\* when the key is in it
cacheHit(c, l, k) == k \in DOMAIN cache[loadersOf(c)][l]

\* the value the batch function returns for key k given the rows found:
\* categories.find(...) and articles.find(...)?.tags || []
batchValue(l, k, rows) ==
    IF l = "categoryLoader"
    THEN IF k \in rows THEN Obj([id |-> k]) ELSE Undefined
    ELSE IF k \in rows THEN Obj(<< [id |-> "tag-of-" \o k] >>) ELSE Obj(<< >>)

\* mutant of batchFunction: the batch function returns the values of the rows
\* the store found, without an entry for an id the store does not hold
batchFunctionFoundOnly(l, ids, rows) ==
    LET found == SelectSeq(ids, LAMBDA k : k \in rows)
    IN  [i \in 1..Len(found) |-> batchValue(l, found[i], rows)]

\* nlQueryService.ts:555-569: the batch function of loader l, given the rows
\* findMany returned for ids: ids.map((id) => <the value for id>)
batchFunction(l, ids, rows) ==
    [i \in 1..Len(ids) |-> batchValue(l, ids[i], rows)]

\* DataLoader rejects a whole batch whose batch function returned a list of
\* another length than the list of keys
BatchLengthError ==
    "DataLoader must be constructed with a function which accepts Array<key> and returns Promise<Array<value>>, but the function did not return a Promise of an Array of the same length as the Array of keys."

\* the ids a fetch asks the backing store for
keysOf(f) == { f.keys[i] : i \in 1..Len(f.keys) }

\* the keys DataLoader evicts from its cache when the batch function rejects
evictedOnFailure(f) == keysOf(f)

\* the load() calls made so far for key k on loader l of Executor call c
loadsOf(c, l, k) == { x \in loads : x.call = c /\ x.loader = l /\ x.key = k }

\* the promises created so far for key k on loader l of Executor call c
promisesOf(c, l, k) == { p \in DOMAIN promises : p.call = c /\ p.loader = l /\ p.key = k }

InitLoader ==
    /\ PipelineIdle
    /\ status = [c \in ExecCalls |-> "unborn"]
    /\ cache = [c \in ExecCalls |-> [l \in LoaderNames |-> EmptyMap]]
    /\ queue = [c \in ExecCalls |-> [l \in LoaderNames |-> << >>]]
    /\ promises = EmptyMap /\ fetches = {} /\ loads = {}

\* executeGraphQLQuery is called: it builds defaultContext with new loaders;
\* the calls are numbered in the order they are made
ExecStart(c) ==
    /\ status[c] = "unborn"
    /\ \A b \in ExecCalls : b < c => status[b] # "unborn"
    /\ status' = [status EXCEPT ![c] = "running"]
    /\ cache' = [cache EXCEPT ![c] = [l \in LoaderNames |-> EmptyMap]]
    /\ queue' = [queue EXCEPT ![c] = [l \in LoaderNames |-> << >>]]
    /\ UNCHANGED << promises, fetches, loads >>
    /\ UNCHANGED pipelineVars

\* a resolver of Article calls context.<l>.load(k) during Executor call c: the
\* cached promise is returned, or a new one is cached and its key queued
Load(c, l, k) ==
    /\ status[c] = "running"
    /\ Cardinality(loads) < MaxLoads
    /\ LET nth == Cardinality(loadsOf(c, l, k)) + 1
       IN  IF cacheHit(c, l, k)
           THEN /\ loads' = loads \cup { [call |-> c, loader |-> l, key |-> k, nth |-> nth,
                                          promise |-> cache[loadersOf(c)][l][k]] }
                /\ UNCHANGED << cache, queue, promises >>
           ELSE LET p == [call |-> c, loader |-> l, key |-> k,
                          gen |-> Cardinality(promisesOf(c, l, k)) + 1]
                IN  /\ promises' = Put(promises, p, PendingPromise)
                    /\ cache' = [cache EXCEPT ![loadersOf(c)][l] = Put(@, k, p)]
                    /\ queue' = [queue EXCEPT ![loadersOf(c)][l] = Append(@, p)]
                    /\ loads' = loads \cup { [call |-> c, loader |-> l, key |-> k,
                                              nth |-> nth, promise |-> p] }
    /\ UNCHANGED << status, fetches >>
    /\ UNCHANGED pipelineVars

\* mutant of Dispatch: the loaders are built with batching disabled, and the
\* batch function is called with one key at a time
DispatchOneKey(c, l) ==
    /\ status[c] = "running"
    /\ queue[loadersOf(c)][l] # << >>
    /\ LET batch == << Head(queue[loadersOf(c)][l]) >>
       IN  fetches' = fetches \cup
                        { [call |-> c, loader |-> l, state |-> "inflight",
                           keys |-> [i \in 1..Len(batch) |-> batch[i].key],
                           promises |-> batch, found |-> {}] }
    /\ queue' = [queue EXCEPT ![loadersOf(c)][l] = Tail(@)]
    /\ UNCHANGED << status, cache, promises, loads >>
    /\ UNCHANGED pipelineVars

\* the tick after the first queued load: the batch function is called with the
\* queued keys and sends one findMany to the backing store
Dispatch(c, l) ==
    /\ status[c] = "running"
    /\ queue[loadersOf(c)][l] # << >>
    /\ LET batch == queue[loadersOf(c)][l]
       IN  fetches' = fetches \cup
                        { [call |-> c, loader |-> l, state |-> "inflight",
                           keys |-> [i \in 1..Len(batch) |-> batch[i].key],
                           promises |-> batch, found |-> {}] }
    /\ queue' = [queue EXCEPT ![loadersOf(c)][l] = << >>]
    /\ UNCHANGED << status, cache, promises, loads >>
    /\ UNCHANGED pipelineVars

\* findMany of fetch f resolves with the rows the store holds among the ids
\* asked for: each queued load gets the value at its position
FetchResolves(f, rows) ==
    /\ f \in fetches /\ f.state = "inflight"
    /\ LET values == batchFunction(f.loader, f.keys, rows)
       IN  promises' = [p \in DOMAIN promises |->
                          IF \E i \in 1..Len(f.promises) : f.promises[i] = p
                          THEN IF Len(values) # Len(f.keys)
                               THEN Rejected(BatchLengthError)
                               ELSE Fulfilled(values[CHOOSE i \in 1..Len(f.promises) :
                                                         f.promises[i] = p])
                          ELSE promises[p]]
    /\ fetches' = (fetches \ {f}) \cup { [f EXCEPT !.state = "fulfilled", !.found = rows] }
    /\ UNCHANGED << status, cache, queue, loads >>
    /\ UNCHANGED pipelineVars

\* findMany of fetch f rejects: the batch's loads reject and DataLoader clears
\* the batch's keys from the loader's cache
FetchRejects(f) ==
    /\ f \in fetches /\ f.state = "inflight"
    /\ promises' = [p \in DOMAIN promises |->
                       IF \E i \in 1..Len(f.promises) : f.promises[i] = p
                       THEN Rejected("backing store unavailable")
                       ELSE promises[p]]
    /\ cache' = [cache EXCEPT ![loadersOf(f.call)][f.loader] = Remove(@, evictedOnFailure(f))]
    /\ fetches' = (fetches \ {f}) \cup { [f EXCEPT !.state = "rejected"] }
    /\ UNCHANGED << status, queue, loads >>
    /\ UNCHANGED pipelineVars

\* graphql() settles once nothing of the call is queued or in flight
ExecEnd(c) ==
    /\ status[c] = "running"
    /\ \A l \in LoaderNames : queue[loadersOf(c)][l] = << >>
    /\ \A f \in fetches : f.call = c => f.state # "inflight"
    /\ status' = [status EXCEPT ![c] = "done"]
    /\ UNCHANGED << cache, queue, promises, fetches, loads >>
    /\ UNCHANGED pipelineVars

NextLoader ==
    \/ \E c \in ExecCalls : ExecStart(c)
    \/ \E c \in ExecCalls, l \in LoaderNames, k \in Keys : Load(c, l, k)
    \/ \E c \in ExecCalls, l \in LoaderNames : Dispatch(c, l)
    \/ \E f \in fetches : \E rows \in SUBSET keysOf(f) : FetchResolves(f, rows)
    \/ \E f \in fetches : FetchRejects(f)
    \/ \E c \in ExecCalls : ExecEnd(c)

SpecLoader == InitLoader /\ [][NextLoader]_vars

(***************************************************************************)
(* The batch function alone: one call of a loader's batch function with    *)
(* any list of ids, repeated ids included, against any store content.      *)
(***************************************************************************)

\* ids in one call of a batch function
MaxBatch == 3

\* the lists of ids a batch function is called with
BatchIds == { ids \in SeqsUpTo(Keys, MaxBatch) : Len(ids) > 0 }

\* the promise waiting for position i of the batch
batchPromise(l, ids, i) == [call |-> 1, loader |-> l, key |-> ids[i], gen |-> i]

\* a loader of the first Executor call has called its batch function with ids
InitBatch ==
    /\ PipelineIdle
    /\ status = [c \in ExecCalls |-> IF c = 1 THEN "running" ELSE "unborn"]
    /\ cache = [c \in ExecCalls |-> [l \in LoaderNames |-> EmptyMap]]
    /\ queue = [c \in ExecCalls |-> [l \in LoaderNames |-> << >>]]
    /\ loads = {}
    /\ \E l \in LoaderNames, ids \in BatchIds :
          LET batch == [i \in 1..Len(ids) |-> batchPromise(l, ids, i)]
          IN  /\ promises = [p \in { batch[i] : i \in 1..Len(ids) } |-> PendingPromise]
              /\ fetches = { [call |-> 1, loader |-> l, state |-> "inflight",
                              keys |-> ids, promises |-> batch, found |-> {}] }

NextBatch ==
    \/ \E f \in fetches : \E rows \in SUBSET keysOf(f) : FetchResolves(f, rows)
    \/ \E f \in fetches : FetchRejects(f)

SpecBatch == InitBatch /\ [][NextBatch]_vars

(***************************************************************************)
(* The Validator alone: validateQuery applied to any query text a          *)
(* translator may return.                                                  *)
(***************************************************************************)

\* longest generated query text, in fragments
MaxQueryFrags == 2

\* pieces of query text: operations with and without their mandatory
\* argument, scalar fields with a block, filter keys, an unknown operation
ValidatorFragments == { "{ users ", "searchArticles ", "(query: \"ai\") ",
                        "recommendedArticles ", "(articleId: \"a1\") ", "author { ",
                        "publishedAt{ ", "category: ", "categoryId: " }

RECURSIVE ValidatorTextsUpTo(_)
ValidatorTextsUpTo(n) ==
    IF n = 0 THEN { "" }
    ELSE LET P == ValidatorTextsUpTo(n - 1)
         IN  P \cup { t \o f : t \in P, f \in ValidatorFragments }

\* the texts the Validator may be given: generated ones, the model queries
\* and the fallback's templates
ValidatorInputs == ValidatorTextsUpTo(MaxQueryFrags) \cup ModelQueries \cup Templates

\* a translator has returned a Structured Query
InitValidator ==
    /\ pc = "translated" /\ now = 0 /\ nlQuery = "" /\ startTime = 0
    /\ answer = Null /\ validationResult = Null
    /\ engine = Null /\ raised = Null /\ outcome = Pending /\ calls = << >>
    /\ \E q \in ValidatorInputs :
          graphqlQuery = Ok([query |-> q, explanation |-> ModelExplanation])
    /\ LoadersIdle

\* validateQuery(graphqlQuery.query) returns the Validation Result
Validate ==
    /\ pc = "translated"
    /\ pc' = "validated"
    /\ validationResult' = validateQuery(graphqlQuery.value.query)
    /\ calls' = Append(calls, [stage |-> "validateQuery", query |-> graphqlQuery.value.query,
                               isValid |-> validationResult'.isValid])
    /\ UNCHANGED << now, nlQuery, startTime, answer, graphqlQuery, engine, raised, outcome >>
    /\ UNCHANGED loaderVars

NextValidator == Validate

SpecValidator == InitValidator /\ [][NextValidator]_vars

(***************************************************************************)
(* The Corrector alone: the three rewrites of convertWithOpenAI applied,   *)
(* in the code's order, to any query text a model answer may carry, and    *)
(* applied again to their own result.                                      *)
(***************************************************************************)

\* how many times the three rewrites are applied to a text
MaxPasses == 2

\* pieces of query text: the names the rules look for, blocks, an argument list
QueryFragments == { "{ ", "} ", "tags", "categories ", "trendingArticles",
                    "(limit: 5) ", "{ id } ", "articleCount " }

RECURSIVE QueryTextsUpTo(_)
QueryTextsUpTo(n) ==
    IF n = 0 THEN { "" }
    ELSE LET P == QueryTextsUpTo(n - 1) IN P \cup { t \o f : t \in P, f \in QueryFragments }

\* the texts parsed.query may hold: generated ones, the model queries, texts
\* equal to the fallback's templates, and two trending selections after a
\* tags field without a block
CorrectorInputs ==
    QueryTextsUpTo(MaxQueryFrags) \cup ModelQueries \cup Templates
    \cup { "{ articles { tags } a: trendingArticles { id } b: trendingArticles { id } }" }

\* let correctedQuery = parsed.query
InitCorrector ==
    /\ pc = "correcting" /\ now = 0 /\ nlQuery = "" /\ startTime = 0
    /\ answer = Null /\ validationResult = Null
    /\ engine = Null /\ raised = Null /\ outcome = Pending
    /\ \E q \in CorrectorInputs :
          /\ graphqlQuery = Ok([query |-> q, explanation |-> ModelExplanation])
          /\ calls = << [stage |-> "parsed.query", query |-> q] >>
    /\ LoadersIdle

\* the rewrites of the Corrector, in the order the code applies them
CorrectorRules == << "correctTrending", "correctCategories", "correctTags" >>

\* the rewrite named `rule` applied to the text q
applyRule(rule, q) ==
    IF rule = "correctTrending" THEN correctTrending(q)
    ELSE IF rule = "correctCategories" THEN correctCategories(q)
    ELSE correctTags(q)

\* the rewrite at place `turn` of the three is applied to correctedQuery
ApplyRule(turn) ==
    /\ pc = "correcting"
    /\ Len(calls) <= 3 * MaxPasses
    /\ (Len(calls) - 1) % 3 = turn - 1
    /\ LET c == applyRule(CorrectorRules[turn], graphqlQuery.value.query)
       IN  /\ graphqlQuery' = [graphqlQuery EXCEPT !.value.query = c]
           /\ calls' = Append(calls, [stage |-> CorrectorRules[turn], query |-> c])
    /\ UNCHANGED << pc, now, nlQuery, startTime, answer, validationResult, engine,
                    raised, outcome >>
    /\ UNCHANGED loaderVars

\* nlQueryService.ts:313-316
ApplyTrending == ApplyRule(1)
\* nlQueryService.ts:318-324
ApplyCategories == ApplyRule(2)
\* nlQueryService.ts:326-332
ApplyTags == ApplyRule(3)

NextCorrector == ApplyTrending \/ ApplyCategories \/ ApplyTags

SpecCorrector == InitCorrector /\ [][NextCorrector]_vars

(***************************************************************************)
(* Properties.                                                             *)
(***************************************************************************)

WrapperPrefix == "Failed to process natural language query: "

\* the entries of the run's call history for one stage
CallsOf(stage) == { i \in 1..Len(calls) : calls[i].stage = stage }

\* the model-backed translation fails for answer a: the service call rejects,
\* or the content is not JSON, or is empty, or violates the shape schema
AnswerFails(a) ==
    \/ a.kind = "rejects"
    \/ JSONparse(a.content).kind = "error"
    \/ GraphQLQuerySchema(JSONparse(a.content).value).kind = "error"

\* whether the text contains the keyword in any letter case
ContainsAnyCase(text, kw) ==
    \E i \in 1..(Len(text) - Len(kw) + 1) :
        \A j \in 1..Len(kw) : LowerChar(SubSeq(text, i + j - 1, i + j - 1)) = SubSeq(kw, j, j)

\* the error messages occur in msg one after the other, from index `from` on
RECURSIVE InOrderFrom(_, _, _)
InOrderFrom(msg, errs, from) ==
    \/ Len(errs) = 0
    \/ LET i == indexOf(msg, errs[1], from)
       IN  i # 0 /\ InOrderFrom(msg, Tail(errs), i + Len(errs[1]))

\* C1: the Executor is invoked only after the Validator returned isValid = true
\* for exactly the query text that is executed; when the Validator reports an
\* error the Executor is never invoked in that run and the run ends in an error.
C1_ExecutedOnlyIfValidated ==
    /\ \A i \in CallsOf("executeGraphQLQuery") :
          \E j \in CallsOf("validateQuery") :
              j < i /\ calls[j].isValid /\ calls[j].query = calls[i].query
    /\ (validationResult # Null /\ ~validationResult.isValid) =>
          /\ CallsOf("executeGraphQLQuery") = {}
          /\ pc = "thrown"
          /\ outcome.kind = "thrown"

\* a corrected model query has been validated and handed to the Executor
C1_Witness ==
    /\ pc = "awaitGraphql"
    /\ \E i \in CallsOf("executeGraphQLQuery") :
          calls[i].query = "{ trendingArticles(limit: 10) { id title } }"

\* C2: whenever the model-backed translation fails, convertToGraphQL returns the
\* fallback's output for the same text, the failure is not surfaced, the run
\* goes on to validation and execution, and a returned envelope carries the
\* fallback's explanation.
C2_FallbackOnTranslationFailure ==
    (answer # Null /\ AnswerFails(answer)) =>
        /\ pc = "translated" => graphqlQuery = Ok(parseWithPatterns(nlQuery))
        /\ pc \in {"awaitGraphql", "returned", "thrown"} =>
              /\ CallsOf("validateQuery") # {}
              /\ CallsOf("executeGraphQLQuery") # {}
              /\ engine # Null => raised # convertWithOpenAI(answer)
        /\ pc = "thrown" => engine # Null /\ raised = executeResult(engine)
        /\ pc = "returned" =>
              outcome.value.interpretation = parseWithPatterns(nlQuery).explanation

\* a run whose model answer was not JSON returned an envelope
C2_Witness ==
    /\ pc = "returned"
    /\ answer = [kind |-> "content", content |-> Malformed]
    /\ outcome.kind = "returned"

\* C3: a run ends with a complete Result Envelope or with one thrown error and
\* never with a partial result: when the engine reports an error the run
\* returns no data, even if the engine also produced data.
C3_EnvelopeOrError ==
    /\ outcome.kind \in {"pending", "returned", "thrown"}
    /\ outcome.kind = "returned" <=> pc = "returned"
    /\ outcome.kind = "thrown" <=> pc = "thrown"
    /\ outcome.kind = "returned" =>
          /\ DOMAIN outcome.value =
                {"query", "interpretation", "graphqlQuery", "results", "executionTime"}
          /\ outcome.value.query = nlQuery
          /\ Len(outcome.value.interpretation) > 0
          /\ Len(outcome.value.graphqlQuery) > 0
          /\ outcome.value.results \notin {Null, Undefined}
          /\ outcome.value.results = engine.data
          /\ outcome.value.executionTime \in Nat
          /\ engine.kind = "result" /\ engine.errors = << >>
    /\ outcome.kind = "thrown" => DOMAIN outcome.error = {"kind", "message"}
    /\ (engine # Null /\ engine.kind = "result" /\ Len(engine.errors) > 0) =>
          outcome.kind = "thrown"

\* the engine reported an error together with data, and the run threw
C3_Witness ==
    /\ pc = "thrown"
    /\ engine # Null /\ engine.kind = "result"
    /\ Len(engine.errors) > 0 /\ engine.data = EngineData

\* C4: for every text the fallback translator returns a Structured Query with a
\* non-empty query text and an explanation, so convertToGraphQL never fails.
C4_FallbackAlwaysTranslates ==
    pc \in {"parsed", "validated"} =>
        /\ graphqlQuery.kind = "ok"
        /\ graphqlQuery.value = parseWithPatterns(nlQuery)
        /\ DOMAIN graphqlQuery.value = {"query", "variables", "explanation"}
        /\ Len(graphqlQuery.value.query) > 0
        /\ Len(graphqlQuery.value.explanation) > 0

\* the empty text, which no rule matches, has been translated
C4_Witness ==
    /\ pc = "parsed" /\ nlQuery = ""
    /\ graphqlQuery.value.explanation = "Fetching a general list of articles (default query)"

\* C5: every error raised inside processQuery leaves it wrapped exactly once:
\* the message is the wrapper prefix followed by the original message.
C5_WrappedOnce ==
    /\ raised # Null <=> outcome.kind = "thrown"
    /\ outcome.kind = "thrown" =>
          /\ outcome.error.message = WrapperPrefix \o raised.message
          /\ Cardinality({ i \in 1..Len(outcome.error.message) :
                             OccursAt(outcome.error.message, WrapperPrefix, i) }) = 1

\* graphql() itself rejected, and the run threw
C5_Witness ==
    /\ pc = "thrown"
    /\ engine # Null /\ engine.kind = "throws"

\* C6: when the Validator rejects, the surfaced error contains every violation
\* message, in the Validator's order.
C6_AllViolationsSurfaced ==
    (pc = "thrown" /\ validationResult # Null /\ ~validationResult.isValid) =>
        /\ Len(validationResult.errors) > 0
        /\ validationResult = validateQuery(graphqlQuery.value.query)
        /\ InOrderFrom(outcome.error.message, validationResult.errors, 1)

\* a query with two violations was rejected
C6_Witness ==
    /\ pc = "thrown"
    /\ validationResult # Null
    /\ Len(validationResult.errors) = 2

\* C7: when the engine reports errors, the surfaced error carries the message
\* of the first one only.
C7_FirstEngineErrorOnly ==
    (pc = "thrown" /\ engine # Null /\ engine.kind = "result") =>
        /\ Len(engine.errors) > 0
        /\ outcome.error.message =
              WrapperPrefix \o "GraphQL execution error: " \o engine.errors[1].message
        /\ \A i \in 2..Len(engine.errors) :
              engine.errors[i].message # engine.errors[1].message =>
                  ~includes(outcome.error.message, engine.errors[i].message)

\* the engine reported two different errors
C7_Witness ==
    /\ pc = "thrown"
    /\ engine # Null /\ engine.kind = "result"
    /\ Len(engine.errors) = 2
    /\ engine.errors[1].message # engine.errors[2].message

\* C8: for every text containing "trending" or "popular" in any letter case the
\* fallback returns a query invoking trendingArticles with an explicit limit,
\* and the Validator accepts that query.
C8_TrendingRule ==
    (pc \in {"parsed", "validated"}
        /\ (ContainsAnyCase(nlQuery, "trending") \/ ContainsAnyCase(nlQuery, "popular"))) =>
        /\ includes(graphqlQuery.value.query, "trendingArticles(limit: 10)")
        /\ pc = "validated" => validationResult.isValid /\ validationResult.errors = << >>

\* an upper-case "POPULAR" text that also names statistics was translated and
\* validated
C8_Witness ==
    /\ pc = "validated"
    /\ nlQuery = "POPULAR stats"
    /\ validationResult.isValid

\* the match of the about/on/regarding pattern in the text, whatever the letter
\* case of the text
PatternMatch(text) == searchTermsMatch(toLowerCase(text))

\* X as typed by the caller: the characters of the text at the capture
TypedX(text) ==
    LET m == PatternMatch(text).value
        from == m.index + Len(m.whole) - Len(m.capture)
    IN  SubSeq(text, from, from + Len(m.capture) - 1)

\* a rule that precedes the search rule matches the text
EarlierRuleMatches(text) ==
    \E kw \in {"trending", "popular", "stats", "statistics", "analytics"} :
        ContainsAnyCase(text, kw)

\* C9 as stated: for every text matching the about/on/regarding X pattern the
\* fallback returns the search query with a search term equal to X in the
\* letter case of the input.
C9_AsStated ==
    (pc = "parsed" /\ PatternMatch(nlQuery) # Null) =>
        /\ graphqlQuery.value.query = SearchTemplate
        /\ graphqlQuery.value.variables = Obj([searchQuery |-> TypedX(nlQuery)])

\* C9 as amended: for every text matching the about/on/regarding X pattern and
\* containing none of trending, popular, stats, statistics, analytics, the
\* fallback returns the search query with a search term equal to X lower-cased.
C9_SearchTermLowerCased ==
    (pc = "parsed" /\ PatternMatch(nlQuery) # Null /\ ~EarlierRuleMatches(nlQuery)) =>
        /\ graphqlQuery.value.query = SearchTemplate
        /\ graphqlQuery.value.variables =
              Obj([searchQuery |-> toLowerCase(TypedX(nlQuery))])

\* "about Climate" was translated to a search for "climate"
C9_Witness ==
    /\ pc = "parsed"
    /\ nlQuery = "Find articles about Climate"
    /\ graphqlQuery.value.variables = Obj([searchQuery |-> "climate"])

\* the fetches of loader l of Executor call c that ask for key k
fetchesOf(c, l, k) == { f \in fetches : f.call = c /\ f.loader = l /\ k \in keysOf(f) }

\* key k is waiting in the batch being collected
Queued(c, l, k) ==
    \E i \in 1..Len(queue[loadersOf(c)][l]) : queue[loadersOf(c)][l][i].key = k

\* the loads of one key in one Executor call share one promise and one fetch
OneFetchOneValue(c, l, k) ==
    /\ Cardinality({ x.promise : x \in loadsOf(c, l, k) }) = 1
    /\ \A x, y \in loadsOf(c, l, k) : promises[x.promise] = promises[y.promise]
    /\ Cardinality(fetchesOf(c, l, k)) = IF Queued(c, l, k) THEN 0 ELSE 1

OwnPromise(c, p) == p.call = c

\* C11: every Executor call of the pipeline loads through loaders it built
\* itself: every load of a call returns a promise of that call, a loader's
\* cache and batches hold only promises of the call that built it, and an id
\* loaded in a call is fetched from the backing store by that call, whatever
\* other calls, earlier or interleaved, have loaded.
C11_LoadersPerCall ==
    /\ \A x \in loads : OwnPromise(x.call, x.promise)
    /\ \A c \in DOMAIN status, l \in LoaderNames :
          /\ \A k \in DOMAIN cache[c][l] : OwnPromise(c, cache[c][l][k])
          /\ \A i \in 1..Len(queue[c][l]) : OwnPromise(c, queue[c][l][i])
    /\ \A f \in fetches : \A i \in 1..Len(f.promises) : OwnPromise(f.call, f.promises[i])
    /\ \A c \in DOMAIN status, l \in LoaderNames, k \in Keys :
          loadsOf(c, l, k) # {} => Queued(c, l, k) \/ fetchesOf(c, l, k) # {}

\* two interleaved Executor calls loaded the same id through the same loader,
\* the first call's fetch has resolved, and the second call fetched it again
C11_Witness ==
    \E l \in LoaderNames, k \in Keys :
        /\ DOMAIN status = {1, 2} /\ status[1] = "running" /\ status[2] = "running"
        /\ \E f \in fetchesOf(1, l, k) : f.state = "fulfilled"
        /\ loadsOf(2, l, k) # {}
        /\ fetchesOf(2, l, k) # {}

\* the model service call of the run has settled
Answered == answer # Null /\ pc \in {"translated", "awaitGraphql", "returned", "thrown"}

\* the run used the model-backed translator's result: the fallback was not called
ModelAnswerAccepted == Answered /\ CallsOf("parseWithPatterns") = {}

\* the JSON value the answer's content holds, or Null when there is none
AnswerJson(a) ==
    IF a.kind = "content" /\ a.content.kind = "text" /\ a.content.wellFormed
    THEN a.content.value ELSE Null

\* the value is a JSON object with a string query, a string explanation and
\* variables that are absent, null or a mapping
ThreeFieldsWellTyped(v) ==
    /\ v # Null /\ v.t = "object"
    /\ {"query", "explanation"} \subseteq DOMAIN v.fields
    /\ v.fields["query"].t = "string"
    /\ v.fields["explanation"].t = "string"
    /\ "variables" \in DOMAIN v.fields => v.fields["variables"].t \in {"null", "object"}

\* the object has no field besides the three
NoExtraField(v) == DOMAIN v.fields \subseteq {"query", "variables", "explanation"}

AnswerVariables(a) ==
    IF "variables" \notin DOMAIN AnswerJson(a).fields THEN "absent"
    ELSE AnswerJson(a).fields["variables"].t

\* C13: the variables of every Structured Query handed to the Executor are a
\* mapping or absent, never null: a model answer with variables null or missing
\* yields no variables, one with a mapping yields that mapping, and the fallback
\* supplies variables for the search rule only.
C13_VariablesMappingOrAbsent ==
    /\ \A i \in CallsOf("executeGraphQLQuery") :
          /\ calls[i].variables # Null
          /\ calls[i].variables.kind \in {"undefined", "object"}
          /\ calls[i].variables = graphqlQuery.value.variables
    /\ ModelAnswerAccepted =>
          /\ AnswerVariables(answer) \in {"absent", "null"} =>
                graphqlQuery.value.variables = Undefined
          /\ AnswerVariables(answer) = "object" =>
                graphqlQuery.value.variables = Obj(AnswerJson(answer).fields["variables"].fields)
    /\ (Answered /\ ~ModelAnswerAccepted) =>
          /\ graphqlQuery.value.variables # Undefined <=>
                graphqlQuery.value.query = SearchTemplate
          /\ graphqlQuery.value.variables # Undefined =>
                /\ graphqlQuery.value.variables.kind = "object"
                /\ DOMAIN graphqlQuery.value.variables.value = {"searchQuery"}

\* a model answer with variables null was handed to the Executor without
\* variables
C13_Witness ==
    /\ pc = "awaitGraphql" /\ ModelAnswerAccepted
    /\ AnswerVariables(answer) = "null"
    /\ \E i \in CallsOf("executeGraphQLQuery") : calls[i].variables = Undefined

\* the query text the Validator was given in this run
ValidatedQuery == graphqlQuery.value.query

\* the text selects the field `name` followed immediately by a selection block:
\* the name stands as a whole GraphQL name and the next token is an opening brace
FieldWithBlock(q, name) ==
    \E i \in 1..Len(q) :
        /\ OccursAt(q, name, i)
        /\ i = 1 \/ ~IsWord(SubSeq(q, i - 1, i - 1))
        /\ OccursAt(q, "{", RunEnd(q, i + Len(name), "\\s") + 1)

\* the violation message of the scalar-field rule for a field
ScalarFieldError(name) == name \o " is a String field, not an object - select it directly"

\* C14: the Validator rejects a query text that selects author or publishedAt
\* followed immediately by a selection block, with the error naming the field,
\* and does not raise that error for a query that selects the field directly.
C14_AsStated ==
    (validationResult # Null /\ graphqlQuery # Null /\ graphqlQuery.kind = "ok") =>
        \A name \in {"author", "publishedAt"} :
            LET flagged == \E i \in 1..Len(validationResult.errors) :
                               validationResult.errors[i] = ScalarFieldError(name)
            IN  /\ FieldWithBlock(ValidatedQuery, name) => flagged /\ ~validationResult.isValid
                /\ ~FieldWithBlock(ValidatedQuery, name) => ~flagged

\* the text uses the filter key `key`: the key stands as a whole name and a
\* colon follows it
UsesKey(q, key) ==
    \E i \in 1..Len(q) :
        /\ OccursAt(q, key \o ":", i)
        /\ i = 1 \/ ~IsWord(SubSeq(q, i - 1, i - 1))

DeprecatedKeyError == "Use categoryId instead of category in filters"

\* C15: the Validator rejects every query in which the deprecated filter key
\* category: occurs, with the error naming categoryId, also when the query
\* contains categoryId: elsewhere.
C15_AsStated ==
    (validationResult # Null /\ graphqlQuery # Null /\ graphqlQuery.kind = "ok"
        /\ UsesKey(ValidatedQuery, "category")) =>
        /\ ~validationResult.isValid
        /\ \E i \in 1..Len(validationResult.errors) :
              validationResult.errors[i] = DeprecatedKeyError

\* the run entered through handleToolCall with this tool name
ToolRun(toolName) ==
    /\ Len(calls) > 0 /\ calls[1].stage = "handleToolCall"
    /\ calls[1].toolName = toolName

\* the run is a pipeline run: processQuery was called directly, or through the
\* handler of query_news_articles
PipelineRun ==
    Len(calls) > 0 /\ (calls[1].stage = "convertWithOpenAI" \/ ToolRun("query_news_articles"))

\* the text the caller gave: processQuery's argument, or the tool call's
\* params.query
CallerText ==
    IF calls[1].stage = "handleToolCall" THEN calls[1].params.query ELSE calls[1].text

\* the run stands where processQuery(t) stands, stage by stage, for the model
\* answer and the engine result the run received
AsProcessQuery(t) ==
    /\ nlQuery = t
    /\ pc = "translated" => graphqlQuery = convertToGraphQL(t, answer)
    /\ (pc = "awaitGraphql" \/ (pc = "thrown" /\ engine = Null)) =>
          /\ validationResult = validateQuery(graphqlQuery.value.query)
          /\ validationResult.isValid <=> pc = "awaitGraphql"
    /\ (pc = "thrown" /\ engine = Null) =>
          outcome = Thrown(processQueryCatch(validationError(validationResult)))
    /\ (pc = "thrown" /\ engine # Null) =>
          /\ validationResult.isValid
          /\ outcome = Thrown(processQueryCatch(executeResult(engine)))
    /\ pc = "returned" =>
          /\ validationResult.isValid
          /\ outcome = Returned(envelope(t, graphqlQuery.value, executeResult(engine).value,
                                         now - startTime))

\* C16: handleToolCall("query_news_articles", {query: t}) proceeds and ends as
\* processQuery(t) does for the same model answer and engine result: the same
\* envelope or the same error; handleToolCall with a name that is not a
\* registered tool throws "Tool <name> not found" and invokes no handler.
C16_ToolCallIsProcessQuery ==
    /\ PipelineRun => AsProcessQuery(CallerText)
    /\ \A name \in ToolNames \ {"query_news_articles", "get_article_stats"} :
          ToolRun(name) =>
              /\ pc = "thrown"
              /\ outcome = Thrown(Error("Tool " \o name \o " not found"))
              /\ Len(calls) = 1
              /\ answer = Null /\ engine = Null

\* a tool call with a text in capital letters returned an envelope for it
C16_Witness ==
    /\ ToolRun("query_news_articles") /\ pc = "returned"
    /\ calls[1].params.query = "POPULAR "
    /\ outcome.value.query = "POPULAR "

\* C17: in every returned envelope, query is the caller's text unchanged,
\* interpretation is the explanation of the translator whose query was executed,
\* and graphqlQuery is the text that was validated and executed: the corrected
\* text of the model answer, or the fallback's template unmodified.
C17_EnvelopeFields ==
    (pc = "returned" /\ calls[1].stage = "convertWithOpenAI") =>
        LET env == outcome.value IN
        /\ env.query = calls[1].text
        /\ \A i \in CallsOf("validateQuery") \cup CallsOf("executeGraphQLQuery") :
              calls[i].query = env.graphqlQuery
        /\ Cardinality(CallsOf("validateQuery")) = 1
        /\ Cardinality(CallsOf("executeGraphQLQuery")) = 1
        /\ ModelAnswerAccepted =>
              /\ env.interpretation = AnswerJson(answer).fields["explanation"].s
              /\ env.graphqlQuery = correctedQuery(AnswerJson(answer).fields["query"].s)
        /\ ~ModelAnswerAccepted =>
              /\ env.interpretation = parseWithPatterns(calls[1].text).explanation
              /\ env.graphqlQuery = parseWithPatterns(calls[1].text).query
              /\ env.graphqlQuery \in Templates

\* an envelope whose graphqlQuery is the model's query after the Corrector
\* changed it, for a caller text with capital letters
C17_Witness ==
    /\ pc = "returned" /\ ModelAnswerAccepted
    /\ nlQuery = "Trending"
    /\ AnswerJson(answer).fields["query"].s = "{ trendingArticles { id title } }"
    /\ outcome.value.graphqlQuery = "{ trendingArticles(limit: 10) { id title } }"
    /\ outcome.value.query = "Trending"

\* rule n of the fallback translator matches the text, whatever its letter case
RuleMatches(n, text) ==
    IF n = 1 THEN \E kw \in {"trending", "popular"} : ContainsAnyCase(text, kw)
    ELSE IF n = 2 THEN \E kw \in {"stats", "statistics", "analytics"} : ContainsAnyCase(text, kw)
    ELSE IF n = 3 THEN \/ PatternMatch(text) # Null
                       \/ \E kw \in {"find", "search"} : ContainsAnyCase(text, kw)
    ELSE IF n = 4 THEN \E kw \in {"recent", "latest", "new"} : ContainsAnyCase(text, kw)
    ELSE IF n = 5 THEN \E kw \in {"categories", "category"} : ContainsAnyCase(text, kw)
    ELSE IF n = 6 THEN \E kw \in {"tags", "tag"} : ContainsAnyCase(text, kw)
    ELSE TRUE

\* the first rule that matches, 7 standing for the default
FirstRule(text) == CHOOSE n \in 1..7 : RuleMatches(n, text) /\ \A m \in 1..(n - 1) : ~RuleMatches(m, text)

\* the template of each rule, in rule order: trending/popular, statistics,
\* search, recent, categories, tags, default
RuleTemplate ==
    << TrendingTemplate, StatsTemplate, SearchTemplate, RecentTemplate,
       CategoriesTemplate, TagsTemplate, DefaultTemplate >>

\* C18: the fallback translator returns the template of the first rule, in the
\* order trending/popular, statistics, search, recent, categories, tags, that
\* matches the lower-cased text, whatever later rules match as well, and the
\* default articles query when no rule matches.
C18_FirstMatchingRuleWins ==
    pc \in {"parsed", "validated"} =>
        /\ graphqlQuery.value.query = RuleTemplate[FirstRule(nlQuery)]
        /\ graphqlQuery.value.variables # Undefined <=> FirstRule(nlQuery) = 3

\* "What are the popular tags?" matches the trending rule and the tags rule, and
\* was translated to the trending query
C18_Witness ==
    /\ pc = "parsed"
    /\ nlQuery = "What are the popular tags?"
    /\ RuleMatches(1, nlQuery) /\ RuleMatches(6, nlQuery)
    /\ graphqlQuery.value.query = TrendingTemplate

\* the stages of a pipeline run, in the order processQuery reaches them
StageOrder == << "convertWithOpenAI", "parseWithPatterns", "validateQuery", "executeGraphQLQuery" >>

\* the position of a stage in StageOrder
StageRank(stage) == CHOOSE n \in 1..Len(StageOrder) : StageOrder[n] = stage

\* C19: in one run each of the model-backed translator, the fallback
\* translator, the Validator and the Executor is invoked at most once and in
\* that order, the fallback only after the model-backed translation failed; a
\* run that ended in a validation or execution failure has invoked nothing twice.
C19_EachStageAtMostOnce ==
    /\ \A n \in 1..Len(StageOrder) : Cardinality(CallsOf(StageOrder[n])) <= 1
    /\ \A i, j \in 1..Len(calls) :
          i < j => StageRank(calls[i].stage) < StageRank(calls[j].stage)
    /\ CallsOf("parseWithPatterns") # {} =>
          /\ CallsOf("convertWithOpenAI") # {}
          /\ answer # Null /\ AnswerFails(answer)
    /\ (answer # Null /\ ~AnswerFails(answer)) => CallsOf("parseWithPatterns") = {}
    /\ pc = "thrown" =>
          /\ Len(calls) <= 4
          /\ validationResult # Null
          /\ ~validationResult.isValid => CallsOf("executeGraphQLQuery") = {}
          /\ engine # Null => Cardinality(CallsOf("executeGraphQLQuery")) = 1

\* a run in which the model-backed translation failed, the fallback's query
\* passed the Validator and the execution failed: four invocations and an error
C19_Witness ==
    /\ pc = "thrown"
    /\ engine # Null
    /\ Len(calls) = 4
    /\ calls[2].stage = "parseWithPatterns"

\* the backing-store calls made so far by loader l of Executor call c
storeCalls(c, l) == { f \in fetches : f.call = c /\ f.loader = l }

\* C20 as stated: within one Executor call all keys of one relation type are
\* coalesced into one batched backing-store call per relation type.
C20_AsStated ==
    \A c \in DOMAIN status, l \in LoaderNames : Cardinality(storeCalls(c, l)) <= 1

\* the backing-store calls in flight
Inflight(F) == { f \in F : f.state = "inflight" }

\* C20 as amended: the keys of one relation type requested before the loader
\* dispatches its batch are coalesced into one backing-store call, one entry
\* per key: a load never calls the store itself, and every store call carries
\* the loader's whole queue and empties it; keys requested after a dispatch go
\* into a later call, so an Executor call may make several per relation type.
C20_WholeQueuePerStoreCall ==
    [][ /\ loads' # loads => Inflight(fetches') \subseteq fetches
        /\ \A f \in Inflight(fetches') \ fetches :
              /\ Len(f.promises) > 0
              /\ f.promises = queue[loadersOf(f.call)][f.loader]
              /\ queue'[loadersOf(f.call)][f.loader] = << >>
              /\ \A i, j \in 1..Len(f.keys) : i # j => f.keys[i] # f.keys[j]
      ]_vars

\* two ids requested through one loader went to the backing store in one call
C20_Witness ==
    \E f \in fetches : Len(f.keys) = 2 /\ f.keys[1] # f.keys[2]

\* the value the claim names for id k of loader l when the store holds found
valueFor(l, k, found) ==
    IF l = "categoryLoader"
    THEN IF k \in found THEN Obj([id |-> k]) ELSE Undefined
    ELSE IF k \in found THEN Obj(<< [id |-> "tag-of-" \o k] >>) ELSE Obj(<< >>)

\* C21: for any list of requested ids, ids absent from the store and repeated
\* ids included, a batch function whose store call answered returns a list of
\* the same length in which position i holds the value for the i-th id: the
\* category or undefined for the category loader, the article's tags or an
\* empty list for the tags loader; no load of the batch is rejected.
C21_BatchPositional ==
    \A f \in fetches : f.state = "fulfilled" =>
        /\ Len(f.promises) = Len(f.keys)
        /\ \A i \in 1..Len(f.keys) :
              promises[f.promises[i]] = Fulfilled(valueFor(f.loader, f.keys[i], f.found))

\* a batch function answered for three ids, the first repeated at the third
\* position and the second absent from the store
C21_Witness ==
    \E f \in fetches :
        /\ f.state = "fulfilled" /\ Len(f.keys) = 3
        /\ f.keys[1] = f.keys[3] /\ f.keys[1] \in f.found
        /\ f.keys[2] \notin f.found
        /\ promises[f.promises[2]].state = "fulfilled"

\* the Validator's messages, in the order of its checks
ValidatorMessages ==
    << "Query does not use any valid root query field",
       "searchArticles requires a query parameter",
       "recommendedArticles requires an articleId parameter",
       "author is a String field, not an object - select it directly",
       "publishedAt is a String field, not an object - select it directly",
       "Use categoryId instead of category in filters" >>

\* check n of the Validator is violated by the query text q
CheckViolated(n, q) ==
    LET t == toLowerCase(q)
    IN  CASE n = 1 -> \A m \in 1..Len(allowedQueries) :
                          ~includes(t, toLowerCase(allowedQueries[m]))
          [] n = 2 -> includes(t, "searcharticles") /\ ~includes(t, "query:")
          [] n = 3 -> includes(t, "recommendedarticles") /\ ~includes(t, "articleid:")
          [] n = 4 -> includes(t, "author {") \/ includes(t, "author{")
          [] n = 5 -> includes(t, "publishedat {") \/ includes(t, "publishedat{")
          [] n = 6 -> includes(t, "category:") /\ ~includes(t, "categoryid:")

\* the position of the message in the Validator's order, 0 for another text
MessageRank(m) ==
    IF \E n \in 1..Len(ValidatorMessages) : ValidatorMessages[n] = m
    THEN CHOOSE n \in 1..Len(ValidatorMessages) : ValidatorMessages[n] = m
    ELSE 0

\* C22: the Validator runs all of its checks on every query: the error list
\* holds the message of every violated check and of no other, once each, in
\* the order of the checks, and isValid is true exactly when the list is empty.
C22_AllChecksAccumulated ==
    validationResult # Null =>
        LET errors == validationResult.errors
        IN  /\ validationResult.isValid <=> errors = << >>
            /\ \A n \in 1..Len(ValidatorMessages) :
                  CheckViolated(n, ValidatedQuery) <=>
                      \E i \in 1..Len(errors) : errors[i] = ValidatorMessages[n]
            /\ \A i \in 1..Len(errors) : MessageRank(errors[i]) > 0
            /\ \A i, j \in 1..Len(errors) :
                  i < j => MessageRank(errors[i]) < MessageRank(errors[j])

\* a query that violates the fifth and the sixth check, and no other, was
\* validated: both messages are in the list
C22_Witness ==
    /\ pc = "validated" /\ validationResult # Null
    /\ validationResult.errors = << ValidatorMessages[5], ValidatorMessages[6] >>
    /\ ~validationResult.isValid

\* how many of the characters of q before position i are the character c
CountBefore(q, i, c) == Cardinality({ j \in 1..(i - 1) : SubSeq(q, j, j) = c })

\* the text invokes the root operation `name`: the name stands as a whole
\* GraphQL name in the operation's own selection set, outside any nested
\* selection set and outside any argument list
InvokesRootAt(q, name, i) ==
    /\ OccursAt(q, name, i)
    /\ i = 1 \/ ~IsWord(SubSeq(q, i - 1, i - 1))
    /\ i + Len(name) > Len(q) \/ ~IsWord(SubSeq(q, i + Len(name), i + Len(name)))
    /\ CountBefore(q, i, "{") - CountBefore(q, i, "}") = 1
    /\ CountBefore(q, i, "(") - CountBefore(q, i, ")") = 0

InvokesRoot(q, name) == \E i \in 1..Len(q) : InvokesRootAt(q, name, i)

\* C23: the Validator reports the "no valid operation" error if and only if
\* the query text invokes none of the recognized root operations; a query
\* whose only root operation is unrecognized is rejected.
C23_AsStated ==
    (pc \in {"awaitGraphql", "thrown"} /\ validationResult # Null) =>
        LET reported == \E i \in 1..Len(validationResult.errors) :
                            validationResult.errors[i] = ValidatorMessages[1]
            invokesNone == \A n \in 1..Len(allowedQueries) :
                               ~InvokesRoot(ValidatedQuery, allowedQueries[n])
        IN  /\ reported <=> invokesNone
            /\ invokesNone => ~validationResult.isValid

\* the root operation `name` invoked at position i is given the argument
\* `arg`: the operation's name is followed by an argument list in which the
\* argument's name, a whole name of that list itself, is followed by a colon
SuppliedAt(q, name, arg, i) ==
    LET open == RunEnd(q, i + Len(name), "\\s") + 1
    IN  /\ OccursAt(q, "(", open)
        /\ \E j \in (open + 1)..Len(q) :
              /\ OccursAt(q, arg, j)
              /\ ~IsWord(SubSeq(q, j - 1, j - 1)) /\ SubSeq(q, j - 1, j - 1) # "$"
              /\ OccursAt(q, ":", RunEnd(q, j + Len(arg), "\\s") + 1)
              /\ CountBefore(q, j, "{") - CountBefore(q, j, "}") = 1
              /\ \A k \in (open + 1)..j :
                    CountBefore(q, k, "(") - CountBefore(q, k, ")") = 1

\* the operations with a mandatory argument, and the rank of the message
MandatoryArguments ==
    { [operation |-> "searchArticles", argument |-> "query", rank |-> 2],
      [operation |-> "recommendedArticles", argument |-> "articleId", rank |-> 3] }

\* C24: the Validator reports a missing-parameter error for every query that
\* invokes searchArticles without a query argument, and for every query that
\* invokes recommendedArticles without an articleId argument; it reports
\* neither error when the argument is supplied to the operation.
C24_AsStated ==
    (pc \in {"awaitGraphql", "thrown"} /\ validationResult # Null) =>
        \A m \in MandatoryArguments :
            LET q == ValidatedQuery
                reported == \E i \in 1..Len(validationResult.errors) :
                                validationResult.errors[i] = ValidatorMessages[m.rank]
                at == { i \in 1..Len(q) : InvokesRootAt(q, m.operation, i) }
            IN  at # {} =>
                   /\ (\E i \in at : ~SuppliedAt(q, m.operation, m.argument, i)) => reported
                   /\ (\A i \in at : SuppliedAt(q, m.operation, m.argument, i)) => ~reported

\* the query text of the model answer the run accepted
AnswerQuery == AnswerJson(answer).fields["query"].s

\* the root operation `name` invoked at position i has an argument list:
\* the next token after the name is an opening parenthesis
WithArgumentList(q, name, i) == OccursAt(q, "(", RunEnd(q, i + Len(name), "\\s") + 1)

\* C25: when the model's query invokes trendingArticles without an argument
\* list, the corrected query invokes it as trendingArticles(limit: 10) and is
\* otherwise unchanged; when it invokes trendingArticles with an argument list,
\* with or without whitespace before the parenthesis, the rule leaves the query
\* unchanged (stated for queries the other two rules do not apply to).
C25_AsStated ==
    (pc = "translated" /\ ModelAnswerAccepted
        /\ ~includes(AnswerQuery, "categories") /\ ~includes(AnswerQuery, "tags")) =>
        LET q == AnswerQuery
            c == graphqlQuery.value.query
            name == "trendingArticles"
            at == { i \in 1..Len(q) : InvokesRootAt(q, name, i) }
        IN  /\ (at # {} /\ \A i \in at : WithArgumentList(q, name, i)) => c = q
            /\ \A i \in at :
                  (at = {i} /\ ~WithArgumentList(q, name, i)) =>
                      c = SubSeq(q, 1, i - 1) \o "trendingArticles(limit: 10)"
                             \o SubSeq(q, i + Len(name), Len(q))

\* the characters of q from position i on occur in c from position j on, in
\* the same order: c is q with text inserted
RECURSIVE EmbedsFrom(_, _, _, _)
EmbedsFrom(q, c, i, j) ==
    IF i > Len(q) THEN TRUE
    ELSE IF j > Len(c) THEN FALSE
    ELSE IF SubSeq(q, i, i) = SubSeq(c, j, j) THEN EmbedsFrom(q, c, i + 1, j + 1)
    ELSE EmbedsFrom(q, c, i, j + 1)

\* the text selects the field `name` with a selection block: the name stands
\* as a whole name and is followed, after an optional argument list, by an
\* opening brace
SelectsBlock(q, name) ==
    \E i \in 1..Len(q) :
        /\ OccursAt(q, name, i)
        /\ i = 1 \/ ~IsWord(SubSeq(q, i - 1, i - 1))
        /\ LET a == RunEnd(q, i + Len(name), "\\s") + 1
               b == IF OccursAt(q, "(", a) /\ indexOf(q, ")", a) # 0
                    THEN RunEnd(q, indexOf(q, ")", a) + 1, "\\s") + 1
                    ELSE a
           IN  OccursAt(q, "{", b)

\* C26: when the model's query selects a categories block or a tags block
\* and omits articleCount, the corrected query holds articleCount and nothing
\* else is changed: field arguments, filter values, the other selection blocks
\* and the rest of the text are preserved; the rule only inserts text (stated
\* for queries the default-parameter rule does not apply to).
C26_AsStated ==
    (pc = "translated" /\ ModelAnswerAccepted
        /\ ~includes(AnswerQuery, "trendingArticles")
        /\ ~includes(AnswerQuery, "articleCount")
        /\ (SelectsBlock(AnswerQuery, "categories") \/ SelectsBlock(AnswerQuery, "tags"))) =>
        /\ includes(graphqlQuery.value.query, "articleCount")
        /\ EmbedsFrom(AnswerQuery, graphqlQuery.value.query, 1, 1)

\* applying the rewrite named `rule` to the text t a second time changes
\* nothing
IdempotentOn(rule, t) == applyRule(rule, applyRule(rule, t)) = applyRule(rule, t)

\* the text the Corrector was given, and the text after its n-th pass
CorrectorInput == calls[1].query
AfterPass(n) == calls[3 * n + 1].query

\* the default-parameter rule has nothing to do on the text
TrendingSettled(t) == includes(t, "trendingArticles") => includes(t, "trendingArticles(")

\* each rule alone is idempotent on the text the Corrector holds
EachRuleIdempotent ==
    LET t == graphqlQuery.value.query
    IN  \A n \in 1..Len(CorrectorRules) : IdempotentOn(CorrectorRules[n], t)

C28_AsStated ==
    (Len(calls) >= 4 /\ CorrectorInput \in Templates) => AfterPass(1) = CorrectorInput

\* C28 as amended: the Corrector's rewrites leave every template of the
\* fallback translator unchanged except the search template, into whose
\* facets categories block the categories rule inserts articleCount.
C28_CanonicalExceptSearch ==
    (Len(calls) >= 4 /\ CorrectorInput \in Templates) =>
        /\ CorrectorInput # SearchTemplate => AfterPass(1) = CorrectorInput
        /\ CorrectorInput = SearchTemplate =>
              /\ calls[2].query = CorrectorInput
              /\ calls[3].query # CorrectorInput
              /\ includes(calls[3].query,
                          "facets {\n                categories { key\n                  count\n                 articleCount }")
              /\ AfterPass(1) = calls[3].query

\* the three rewrites were applied to the categories template, which names
\* categories, and left it as it was
C28_Witness ==
    /\ Len(calls) >= 4
    /\ CorrectorInput = CategoriesTemplate
    /\ includes(CorrectorInput, "categories")
    /\ AfterPass(1) = CategoriesTemplate

\* C29: when the search rule is selected because the text contains find or
\* search but no about/on/regarding pattern, the search term is the first
\* space-separated word of the lower-cased text that is not in the stoplist,
\* and it is "news" when no such non-empty word exists; the search variable
\* is a non-empty string in every case.
C29_AsStated ==
    (pc = "parsed" /\ FirstRule(nlQuery) = 3 /\ PatternMatch(nlQuery) = Null) =>
        LET words == split(toLowerCase(nlQuery))
            Content == { i \in 1..Len(words) : words[i] \notin StopWords /\ words[i] # "" }
            term == graphqlQuery.value.variables.value.searchQuery
        IN  /\ Content # {} => term = words[CHOOSE i \in Content : \A j \in Content : i <= j]
            /\ Content = {} => term = "news"
            /\ term # ""

\* the query the Validator was given in this run is the fallback's
ValidatedFallback ==
    /\ validationResult # Null
    /\ CallsOf("parseWithPatterns") # {}
    /\ \E i \in CallsOf("validateQuery") : calls[i].query = graphqlQuery.value.query

\* C30: for every input text, the query the fallback translator returns
\* passes the Validator with isValid = true and no error, so a run that took
\* the fallback path does not end in a validation failure.
C30_FallbackAlwaysValid ==
    /\ ValidatedFallback =>
          /\ graphqlQuery.value.query \in Templates
          /\ validationResult.isValid
          /\ validationResult.errors = << >>
    /\ (validationResult # Null /\ ~validationResult.isValid) =>
          CallsOf("parseWithPatterns") = {}

\* the fallback returned the search template, which names searchArticles,
\* and the Validator found the query argument and accepted it
C30_Witness ==
    /\ ValidatedFallback
    /\ graphqlQuery.value.query = SearchTemplate
    /\ graphqlQuery.value.variables # Undefined
    /\ validationResult.isValid

====
